---- MODULE Spec2Model ----
(***************************************************************************)
(* State-machine model of be/src/exprs/aggregate-functions.cc: the builtin *)
(* aggregate functions (init / update / merge / serialize / finalize) run  *)
(* over a small number of partial states that one plan fragment owns.      *)
(*                                                                         *)
(* One behaviour runs one aggregate function (agg) with one type           *)
(* descriptor (desc).  st[p] is the intermediate value ("dst") of partial  *)
(* state p, ctx is the FunctionContext (allocations, warnings), out[p] the *)
(* value finalize returned.  hist, cnt and last are history variables: the *)
(* non-null inputs folded into each partial state (for rank, the calls     *)
(* made on it), the number of calls made, and the last call with the state *)
(* it started from.                                                        *)
(***************************************************************************)
EXTENDS Integers, Sequences, FiniteSets, TLC

VARIABLES agg, desc, st, ctx, out, hist, cnt, last

vars == <<agg, desc, st, ctx, out, hist, cnt, last>>

(***************************************************************************)
(* Bounds of the model.                                                    *)
(***************************************************************************)
\* Non-null rows folded in by update calls, over all partial states.
MaxRows == 3
\* Merge calls in one behaviour.
MaxMerges == 1
\* Rows offered to the analytic functions (rank, dense_rank), over all
\* partial states.
MaxRankRows == 6

\* The partial states of one aggregation.
Parts == {1, 2}

(***************************************************************************)
(* Arithmetic helpers.                                                     *)
(***************************************************************************)
Abs(x) == IF x < 0 THEN -x ELSE x

MinOf(a, b) == IF a < b THEN a ELSE b

MaxOf(a, b) == IF a > b THEN a ELSE b

RECURSIVE Gcd(_, _)
Gcd(a, b) == IF b = 0 THEN a ELSE Gcd(b, a % b)

\* A double holding a rational n/d exactly: <<n, d>> in lowest terms, d > 0.
Frac(n, d) ==
  LET s == IF d < 0 THEN -1 ELSE 1
      g == Gcd(Abs(n), Abs(d))
  IN  <<(s * n) \div g, (s * d) \div g>>

FromInt(n) == <<n, 1>>

FAdd(x, y) == Frac(x[1] * y[2] + y[1] * x[2], x[2] * y[2])

FSub(x, y) == Frac(x[1] * y[2] - y[1] * x[2], x[2] * y[2])

FMul(x, y) == Frac(x[1] * y[1], x[2] * y[2])

FDiv(x, y) == Frac(x[1] * y[2], x[2] * y[1])

FLess(x, y) == x[1] * y[2] < y[1] * x[2]

RECURSIVE SeqSum(_)
SeqSum(s) == IF s = <<>> THEN 0 ELSE Head(s) + SeqSum(Tail(s))

Range(s) == {s[i] : i \in 1..Len(s)}

(***************************************************************************)
(* FunctionContext: Allocate / Reallocate / Free as a tracking allocator.  *)
(* live is the set of buffers allocated and not freed, bad_free counts the *)
(* Free calls on a pointer that is not live, warnings the AddWarning calls.*)
(***************************************************************************)
NULL == 0

NewCtx == [live |-> {}, bad_free |-> 0, warnings |-> 0]

\* The pointer Allocate returns: the lowest address not in use.
NewPtr(c) == CHOOSE n \in 1..(Cardinality(c.live) + 1) :
                  n \notin c.live /\ \A m \in 1..(n - 1) : m \in c.live

Allocate(c) == [c EXCEPT !.live = @ \cup {NewPtr(c)}]

Free(c, ptr) ==
  IF ptr \in c.live THEN [c EXCEPT !.live = @ \ {ptr}]
  ELSE IF ptr = NULL THEN c
  ELSE [c EXCEPT !.bad_free = @ + 1]

AddWarning(c) == [c EXCEPT !.warnings = @ + 1]

(***************************************************************************)
(* Values (udf.h AnyVal): a null flag and a payload.                       *)
(***************************************************************************)
NullVal == [is_null |-> TRUE, val |-> 0]

Val(v) == [is_null |-> FALSE, val |-> v]

\* Integer inputs of the numeric aggregates.
IntVals == {-1, 2}

\* An int64_t kept at its width: four 16-bit limbs, the least significant
\* first, in two's complement.
Limb == 65536

\* The int64_t of a small integer n (|n| < 2^15).
Int64(n) ==
  IF n >= 0 THEN <<n, 0, 0, 0>> ELSE <<Limb + n, Limb - 1, Limb - 1, Limb - 1>>

\* a + b on int64_t: the carry out of the top limb is dropped.
Add64(a, b) ==
  LET s1 == a[1] + b[1]
      s2 == a[2] + b[2] + (s1 \div Limb)
      s3 == a[3] + b[3] + (s2 \div Limb)
      s4 == a[4] + b[4] + (s3 \div Limb)
  IN  <<s1 % Limb, s2 % Limb, s3 % Limb, s4 % Limb>>

\* std::numeric_limits<int64_t>::max() and min()
INT64_MAX == <<Limb - 1, Limb - 1, Limb - 1, (Limb \div 2) - 1>>

INT64_MIN == <<0, 0, 0, Limb \div 2>>

\* BigIntVal inputs of Sum<BigIntVal, BigIntVal>: -1, 2 and the largest value.
BigIntInputs == {NullVal, Val(Int64(-1)), Val(Int64(2)), Val(INT64_MAX)}

IntInputs == {NullVal} \cup {Val(v) : v \in IntVals}

\* A StringVal: is_null, ptr, len and, as buf, the bytes (or the struct) at ptr.
NullString == [is_null |-> TRUE, ptr |-> NULL, len |-> 0, buf |-> <<>>]

StringVal(ptr, len, buf) == [is_null |-> FALSE, ptr |-> ptr, len |-> len, buf |-> buf]

\* What two states are compared by: everything but the address of the buffer.
Content(s) == [s EXCEPT !.ptr = NULL]

(***************************************************************************)
(* Count.                                                                  *)
(***************************************************************************)
InitZero == [is_null |-> FALSE, val |-> 0]

InitNull == [is_null |-> TRUE, val |-> 0]

\* CountUpdate without the test of src.is_null.
CountUpdateAnyRow(src, dst) == [dst EXCEPT !.val = @ + 1]

CountUpdate(src, dst) == IF ~src.is_null THEN [dst EXCEPT !.val = @ + 1] ELSE dst

CountStarUpdate(dst) == [dst EXCEPT !.val = @ + 1]

\* CountMerge counting the merged state as one row.
CountMergeIncrement(src, dst) == [dst EXCEPT !.val = @ + 1]

CountMerge(src, dst) == [dst EXCEPT !.val = @ + src.val]

(***************************************************************************)
(* Sum (integer accumulator).  The same function is update and merge.      *)
(***************************************************************************)
\* InitZero<BigIntVal> for the 64-bit accumulator of Sum.
InitZero64 == [is_null |-> FALSE, val |-> Int64(0)]

\* InitNull on the BigIntVal accumulator of Sum: val is not read while is_null.
InitNullBigInt == [is_null |-> TRUE, val |-> Int64(0)]

\* Sum without "if (dst->is_null) InitZero<DST_VAL>(ctx, dst)".
SumNoInitZero(src, dst) ==
  IF src.is_null THEN dst
  ELSE [dst EXCEPT !.val = Add64(@, src.val)]

Sum(src, dst) ==
  IF src.is_null THEN dst
  ELSE LET d == IF dst.is_null THEN InitZero64 ELSE dst
       IN  [d EXCEPT !.val = Add64(@, src.val)]

(***************************************************************************)
(* Min / Max (generic template).                                           *)
(***************************************************************************)
Min(src, dst) ==
  IF src.is_null THEN dst
  ELSE IF dst.is_null \/ src.val < dst.val THEN src ELSE dst

Max(src, dst) ==
  IF src.is_null THEN dst
  ELSE IF dst.is_null \/ src.val > dst.val THEN src ELSE dst

(***************************************************************************)
(* Avg: AvgState {double sum; int64_t count} in an allocated buffer.       *)
(***************************************************************************)
SizeofAvgState == 16

AvgInit(c) ==
  [dst |-> StringVal(NewPtr(c), SizeofAvgState, [sum |-> 0, count |-> 0]),
   ctx |-> Allocate(c)]

AvgUpdate(src, dst) ==
  IF src.is_null THEN dst
  ELSE [dst EXCEPT !.buf = [sum |-> @.sum + src.val, count |-> @.count + 1]]

\* AvgMerge without "dst_struct->count += src_struct->count".
AvgMergeSumOnly(src, dst) ==
  [dst EXCEPT !.buf = [sum |-> @.sum + src.buf.sum, count |-> @.count]]

AvgMerge(src, dst) ==
  [dst EXCEPT !.buf = [sum |-> @.sum + src.buf.sum, count |-> @.count + src.buf.count]]

\* AvgGetValue dividing in integers.
AvgGetValueIntegerDivision(src) ==
  IF src.buf.count = 0 THEN NullVal
  ELSE Val(FromInt(src.buf.sum \div src.buf.count))

AvgGetValue(src) ==
  IF src.buf.count = 0 THEN NullVal
  ELSE Val(Frac(src.buf.sum, src.buf.count))

\* AvgFinalize without "ctx->Free(src.ptr)".
AvgFinalizeNoFree(c, src) == [result |-> AvgGetValue(src), ctx |-> c]

AvgFinalize(c, src) == [result |-> AvgGetValue(src), ctx |-> Free(c, src.ptr)]

(***************************************************************************)
(* Timestamp average.  TimestampVal is {date, time_of_day}; the conversion *)
(* to and from double is the value library's (runtime/timestamp-value.h).  *)
(***************************************************************************)
SecondsPerDay == 86400

NullTimestamp == [is_null |-> TRUE, date |-> 0, time_of_day |-> 0]

TimestampVal(d, t) == [is_null |-> FALSE, date |-> d, time_of_day |-> t]

TimestampInputs == {NullTimestamp, TimestampVal(1, 30), TimestampVal(2, 0)}

\* TimestampValue::FromTimestampVal(src) converted to double.
TimestampToDouble(ts) == ts.date * SecondsPerDay + ts.time_of_day

\* TimestampValue(double) followed by ToTimestampVal.
DoubleToTimestamp(x) ==
  LET secs == x[1] \div x[2]
  IN  TimestampVal(secs \div SecondsPerDay, secs % SecondsPerDay)

TimestampAvgUpdate(src, dst) ==
  IF src.is_null THEN dst
  ELSE [dst EXCEPT !.buf = [sum |-> @.sum + TimestampToDouble(src),
                            count |-> @.count + 1]]

TimestampAvgGetValue(src) ==
  IF src.buf.count = 0 THEN NullTimestamp
  ELSE DoubleToTimestamp(Frac(src.buf.sum, src.buf.count))

TimestampAvgFinalize(c, src) ==
  [result |-> TimestampAvgGetValue(src), ctx |-> Free(c, src.ptr)]

(***************************************************************************)
(* Decimals.  DecimalVal is a union of val4 (int32), val8 (int64) and      *)
(* val16 (int128) over the same bytes.  A 128-bit value is kept as         *)
(* <<hi, lo>>, standing for hi * 2^32 + lo with lo a signed 32-bit limb,   *)
(* so that val4 (the low four bytes) is lo.  The inputs keep hi and lo     *)
(* small: no sum of the model carries out of a limb.                       *)
(***************************************************************************)
I128(hi, lo) == <<hi, lo>>

Add128(x, y) == <<x[1] + y[1], x[2] + y[2]>>

\* The int32 in the low four bytes, widened to 128 bits.
Val4(x) == <<0, x[2]>>

\* The int64 in the low eight bytes, widened to 128 bits (|hi| < 2^31 here).
Val8(x) == x

Val16(x) == x

NullDecimal == [is_null |-> TRUE, val16 |-> I128(0, 0)]

DecimalVal(x) == [is_null |-> FALSE, val16 |-> x]

\* ColumnType::GetByteSize of a decimal of the declared precision.
GetByteSize(precision) ==
  IF precision <= 9 THEN 4 ELSE IF precision <= 19 THEN 8 ELSE 16

\* The declared precisions of the model: one per physical width.
Precisions == {9, 19, 38}

\* Non-null decimals a column of the declared precision can hold.
DecimalVals(precision) ==
  IF precision <= 9 THEN {I128(0, 3), I128(0, -2)}
  ELSE {I128(0, 3), I128(1, -2)}

DecimalInputs(precision) ==
  {NullDecimal} \cup {DecimalVal(x) : x \in DecimalVals(precision)}

SumUpdate(precision, src, dst) ==
  IF src.is_null THEN dst
  ELSE LET d == IF dst.is_null THEN DecimalVal(I128(0, 0)) ELSE dst
       IN  IF precision <= 9 THEN [d EXCEPT !.val16 = Add128(@, Val4(src.val16))]
           ELSE IF precision <= 19 THEN [d EXCEPT !.val16 = Add128(@, Val8(src.val16))]
           ELSE [d EXCEPT !.val16 = Add128(@, Val16(src.val16))]

SumMerge(src, dst) ==
  IF src.is_null THEN dst
  ELSE LET d == IF dst.is_null THEN DecimalVal(I128(0, 0)) ELSE dst
       IN  [d EXCEPT !.val16 = Add128(@, src.val16)]

SizeofDecimalAvgState == 24

DecimalAvgInit(c) ==
  [dst |-> StringVal(NewPtr(c), SizeofDecimalAvgState,
                     [sum |-> I128(0, 0), count |-> 0]),
   ctx |-> Allocate(c)]

DecimalAvgUpdate(precision, src, dst) ==
  IF src.is_null THEN dst
  ELSE LET size == GetByteSize(precision)
           add  == IF size = 4 THEN Val4(src.val16)
                   ELSE IF size = 8 THEN Val8(src.val16)
                   ELSE Val4(src.val16)
       IN  [dst EXCEPT !.buf = [sum |-> Add128(@.sum, add), count |-> @.count + 1]]

DecimalAvgMerge(src, dst) ==
  [dst EXCEPT !.buf = [sum |-> Add128(@.sum, src.buf.sum),
                       count |-> @.count + src.buf.count]]

\* Decimal16Value::Divide (runtime/decimal-value.h): the quotient with its
\* is_nan and overflow flags.  is_nan reports a zero divisor and leaves
\* overflow as it was (an uninitialized local of the caller); for any other
\* divisor the library decides overflow.  The quotient is kept as the pair it
\* was computed from.
Divide(sum, count) ==
  {[value |-> [num |-> sum, den |-> count], is_nan |-> count = 0, overflow |-> o] :
      o \in BOOLEAN}

\* What last keeps when no division took place.
NoDivide == [value |-> [num |-> I128(0, 0), den |-> 0], is_nan |-> FALSE,
             overflow |-> FALSE]

\* DecimalAvgGetValue without the AddWarning call.
DecimalAvgGetValueNoWarning(c, src, divided) ==
  IF src.buf.count = 0 THEN [result |-> NullDecimal, ctx |-> c]
  ELSE IF divided.is_nan THEN [result |-> NullDecimal, ctx |-> c]
  ELSE IF divided.overflow THEN [result |-> NullDecimal, ctx |-> c]
  ELSE [result |-> [is_null |-> FALSE, val16 |-> divided.value], ctx |-> c]

\* divided is the result of sum.Divide(count), an element of Divide(sum, count).
DecimalAvgGetValue(c, src, divided) ==
  IF src.buf.count = 0 THEN [result |-> NullDecimal, ctx |-> c]
  ELSE IF divided.is_nan THEN [result |-> NullDecimal, ctx |-> c]
  ELSE IF divided.overflow THEN [result |-> NullDecimal, ctx |-> AddWarning(c)]
  ELSE [result |-> [is_null |-> FALSE, val16 |-> divided.value], ctx |-> c]

DecimalAvgFinalize(c, src, divided) ==
  LET r == DecimalAvgGetValue(c, src, divided)
  IN  [result |-> r.result, ctx |-> Free(r.ctx, src.ptr)]

(***************************************************************************)
(* Min / Max over strings: deep copy on replace.                           *)
(***************************************************************************)
\* Where a caller's input bytes live: never an address of the allocator.
InputPtr == -1

InputString(bytes) == StringVal(InputPtr, Len(bytes), bytes)

\* "a", "ab", "b"
StringInputs == {NullString, InputString(<<97>>), InputString(<<97, 98>>),
                 InputString(<<98>>)}

\* StringValue::operator< : memcmp over the common prefix, then the lengths.
RECURSIVE BytesLess(_, _)
BytesLess(a, b) ==
  IF b = <<>> THEN FALSE
  ELSE IF a = <<>> THEN TRUE
  ELSE IF Head(a) # Head(b) THEN Head(a) < Head(b)
  ELSE BytesLess(Tail(a), Tail(b))

InitNullString == NullString

\* Min<StringVal> without "if (!dst->is_null) ctx->Free(dst->ptr)".
MinStringNoFree(c, src, dst) ==
  IF src.is_null THEN [dst |-> dst, ctx |-> c]
  ELSE IF dst.is_null \/ BytesLess(src.buf, dst.buf)
       THEN [dst |-> StringVal(NewPtr(c), src.len, src.buf), ctx |-> Allocate(c)]
       ELSE [dst |-> dst, ctx |-> c]

MinString(c, src, dst) ==
  IF src.is_null THEN [dst |-> dst, ctx |-> c]
  ELSE IF dst.is_null \/ BytesLess(src.buf, dst.buf)
       THEN LET c1 == IF ~dst.is_null THEN Free(c, dst.ptr) ELSE c
            IN  [dst |-> StringVal(NewPtr(c1), src.len, src.buf), ctx |-> Allocate(c1)]
       ELSE [dst |-> dst, ctx |-> c]

\* Max<StringVal> taking the longer string for the greater one.
MaxStringByLength(c, src, dst) ==
  IF src.is_null THEN [dst |-> dst, ctx |-> c]
  ELSE IF dst.is_null \/ dst.len < src.len
       THEN LET c1 == IF ~dst.is_null THEN Free(c, dst.ptr) ELSE c
            IN  [dst |-> StringVal(NewPtr(c1), src.len, src.buf), ctx |-> Allocate(c1)]
       ELSE [dst |-> dst, ctx |-> c]

MaxString(c, src, dst) ==
  IF src.is_null THEN [dst |-> dst, ctx |-> c]
  ELSE IF dst.is_null \/ BytesLess(dst.buf, src.buf)
       THEN LET c1 == IF ~dst.is_null THEN Free(c, dst.ptr) ELSE c
            IN  [dst |-> StringVal(NewPtr(c1), src.len, src.buf), ctx |-> Allocate(c1)]
       ELSE [dst |-> dst, ctx |-> c]

(***************************************************************************)
(* Min / Max over decimals and timestamps.                                 *)
(***************************************************************************)
\* Signed comparison of two 128-bit values of the model.
Less128(x, y) == x[1] < y[1] \/ (x[1] = y[1] /\ x[2] < y[2])

MinDecimal(precision, src, dst) ==
  IF src.is_null THEN dst
  ELSE IF precision <= 9
       THEN (IF dst.is_null \/ Less128(Val4(src.val16), Val4(dst.val16)) THEN src ELSE dst)
       ELSE IF precision <= 19
       THEN (IF dst.is_null \/ Less128(Val8(src.val16), Val8(dst.val16)) THEN src ELSE dst)
       ELSE (IF dst.is_null \/ Less128(src.val16, dst.val16) THEN src ELSE dst)

MaxDecimal(precision, src, dst) ==
  IF src.is_null THEN dst
  ELSE IF precision <= 9
       THEN (IF dst.is_null \/ Less128(Val4(dst.val16), Val4(src.val16)) THEN src ELSE dst)
       ELSE IF precision <= 19
       THEN (IF dst.is_null \/ Less128(Val8(dst.val16), Val8(src.val16)) THEN src ELSE dst)
       ELSE (IF dst.is_null \/ Less128(dst.val16, src.val16) THEN src ELSE dst)

\* TimestampValue::operator< : the date, then the time of day.
TimestampLess(a, b) ==
  a.date < b.date \/ (a.date = b.date /\ a.time_of_day < b.time_of_day)

MinTimestamp(src, dst) ==
  IF src.is_null THEN dst
  ELSE IF dst.is_null THEN src
  ELSE IF TimestampLess(src, dst) THEN src ELSE dst

MaxTimestamp(src, dst) ==
  IF src.is_null THEN dst
  ELSE IF dst.is_null THEN src
  ELSE IF TimestampLess(dst, src) THEN src ELSE dst

(***************************************************************************)
(* StringConcat.  The intermediate buffer is a StringConcatHeader (an int: *)
(* the length of the first separator) followed by the accumulated string,  *)
(* which starts with that separator.  Bytes are numbers.                   *)
(***************************************************************************)
\* sizeof(StringConcatHeader)
HeaderLen == 4

Byte == 256

\* The bytes of an int, least significant first.
HeaderBytes(n) ==
  <<n % Byte, (n \div Byte) % Byte, (n \div (Byte * Byte)) % Byte,
    n \div (Byte * Byte * Byte)>>

\* *reinterpret_cast<StringConcatHeader*>(ptr)
ReadHeader(buf) ==
  buf[1] + Byte * buf[2] + Byte * Byte * buf[3] + Byte * Byte * Byte * buf[4]

\* ", "
DEFAULT_STRING_CONCAT_DELIM == InputString(<<44, 32>>)

ConcatRow(val, separator) == [val |-> val, separator |-> separator]

\* The rows (value, separator) of the model: ("a", "-"), ("b", "-"), ("c", "+"),
\* ("c", no separator), (null, "-") and (null, no separator).
ConcatRows ==
  {ConcatRow(InputString(<<97>>), InputString(<<45>>)),
   ConcatRow(InputString(<<98>>), InputString(<<45>>)),
   ConcatRow(InputString(<<99>>), InputString(<<43>>)),
   ConcatRow(InputString(<<99>>), NullString),
   ConcatRow(NullString, InputString(<<45>>)),
   ConcatRow(NullString, NullString)}

\* FunctionContext::Reallocate: a new buffer with the old bytes, the old one freed.
Reallocate(c, ptr) == Allocate(Free(c, ptr))

ReallocatedPtr(c, ptr) == NewPtr(Free(c, ptr))

\* StringConcatUpdate writing the length of the value into the header.
StringConcatUpdateHeaderOfValue(c, src, separator, result) ==
  IF src.is_null THEN [dst |-> result, ctx |-> c]
  ELSE LET sep == IF separator.is_null THEN DEFAULT_STRING_CONCAT_DELIM ELSE separator
           c1  == IF result.is_null THEN Allocate(c) ELSE c
           r1  == IF result.is_null
                  THEN StringVal(NewPtr(c), HeaderLen, HeaderBytes(sep.len + src.len))
                  ELSE result
           new_len == r1.len + sep.len + src.len
       IN  [dst |-> StringVal(ReallocatedPtr(c1, r1.ptr), new_len,
                              r1.buf \o sep.buf \o src.buf),
            ctx |-> Reallocate(c1, r1.ptr)]

StringConcatUpdate(c, src, separator, result) ==
  IF src.is_null THEN [dst |-> result, ctx |-> c]
  ELSE LET sep == IF separator.is_null THEN DEFAULT_STRING_CONCAT_DELIM ELSE separator
           c1  == IF result.is_null THEN Allocate(c) ELSE c
           r1  == IF result.is_null
                  THEN StringVal(NewPtr(c), HeaderLen, HeaderBytes(sep.len))
                  ELSE result
           new_len == r1.len + sep.len + src.len
       IN  [dst |-> StringVal(ReallocatedPtr(c1, r1.ptr), new_len,
                              r1.buf \o sep.buf \o src.buf),
            ctx |-> Reallocate(c1, r1.ptr)]

\* StringConcatMerge appending the source after its header and its first
\* separator.
StringConcatMergeSkipSeparator(c, src, result) ==
  IF src.is_null THEN [dst |-> result, ctx |-> c]
  ELSE LET c1 == IF result.is_null THEN Allocate(c) ELSE c
           r1 == IF result.is_null
                 THEN StringVal(NewPtr(c), HeaderLen, SubSeq(src.buf, 1, HeaderLen))
                 ELSE result
           skip == HeaderLen + ReadHeader(src.buf)
       IN  [dst |-> StringVal(ReallocatedPtr(c1, r1.ptr), r1.len + src.len - skip,
                              r1.buf \o SubSeq(src.buf, skip + 1, src.len)),
            ctx |-> Reallocate(c1, r1.ptr)]

\* StringConcatMerge appending the source with its header.
StringConcatMergeKeepHeader(c, src, result) ==
  IF src.is_null THEN [dst |-> result, ctx |-> c]
  ELSE LET c1 == IF result.is_null THEN Allocate(c) ELSE c
           r1 == IF result.is_null
                 THEN StringVal(NewPtr(c), HeaderLen, SubSeq(src.buf, 1, HeaderLen))
                 ELSE result
       IN  [dst |-> StringVal(ReallocatedPtr(c1, r1.ptr), r1.len + src.len,
                              r1.buf \o src.buf),
            ctx |-> Reallocate(c1, r1.ptr)]

StringConcatMerge(c, src, result) ==
  IF src.is_null THEN [dst |-> result, ctx |-> c]
  ELSE LET c1 == IF result.is_null THEN Allocate(c) ELSE c
           r1 == IF result.is_null
                 THEN StringVal(NewPtr(c), HeaderLen, SubSeq(src.buf, 1, HeaderLen))
                 ELSE result
           new_len == r1.len + src.len - HeaderLen
       IN  [dst |-> StringVal(ReallocatedPtr(c1, r1.ptr), new_len,
                              r1.buf \o SubSeq(src.buf, HeaderLen + 1, src.len)),
            ctx |-> Reallocate(c1, r1.ptr)]

\* StringConcatFinalize skipping the header only.
StringConcatFinalizeKeepSeparator(c, src) ==
  IF src.is_null THEN [result |-> src, ctx |-> c]
  ELSE [result |-> StringVal(NULL, src.len - HeaderLen,
                             SubSeq(src.buf, HeaderLen + 1, src.len)),
        ctx |-> Free(c, src.ptr)]

\* The result is a StringVal(ctx, len): memory the context owns, not a state buffer.
StringConcatFinalize(c, src) ==
  IF src.is_null THEN [result |-> src, ctx |-> c]
  ELSE LET sep_len == ReadHeader(src.buf)
       IN  [result |-> StringVal(NULL, src.len - HeaderLen - sep_len,
                                 SubSeq(src.buf, HeaderLen + sep_len + 1, src.len)),
            ctx |-> Free(c, src.ptr)]

(***************************************************************************)
(* Hashes and bit operations.  An unsigned hash value is the set of the    *)
(* positions of its 1 bits (bit 0 the least significant), so that the      *)
(* 32-bit and 64-bit values keep their width.                              *)
(***************************************************************************)
SetMin(S) == CHOOSE x \in S : \A y \in S : x <= y

\* __builtin_ctz / __builtin_ctzl of a value that is not zero.
Ctz(h) == SetMin(h)

\* h / 2^k and h >> k
ShiftRight(h, k) == {b - k : b \in {x \in h : x >= k}}

RECURSIVE Pow2(_)
Pow2(n) == IF n = 0 THEN 1 ELSE 2 * Pow2(n - 1)

RECURSIVE BitsValue(_)
BitsValue(S) == IF S = {} THEN 0
                ELSE LET b == SetMin(S) IN Pow2(b) + BitsValue(S \ {b})

\* h % 2^k and h & (2^k - 1)
LowBits(h, k) == BitsValue({b \in h : b < k})

\* What __builtin_ctz(0) and __builtin_ctzl(0) may return: the result is
\* undefined (bsf leaves the destination register as it was, tzcnt gives the
\* operand's width).  Three of the values a build can produce.
CtzOfZero(width) == {0, width - 1, width}

(***************************************************************************)
(* Distinct estimates: PC and PCSA.  The bitmap is NUM_PC_BITMAPS rows of  *)
(* PC_BITMAP_LENGTH bits in a zeroed buffer of 256 bytes: buf is the set   *)
(* of the <<row_index, bit_index>> whose bit is 1.                         *)
(***************************************************************************)
NUM_PC_BITMAPS == 64

PC_BITMAP_LENGTH == 32

PcBytes == (NUM_PC_BITMAPS * PC_BITMAP_LENGTH) \div 8

\* NUM_PC_BITMAPS is 2^6: "% NUM_PC_BITMAPS" keeps six bits, "/ NUM_PC_BITMAPS"
\* drops them.
PcRowBits == 6

PcInit(c) ==
  [dst |-> StringVal(NewPtr(c), PcBytes, {}), ctx |-> Allocate(c)]

\* The values "1 << bit_index" can take as the set of its 1 bits.  A shift by
\* the width or more is undefined: the hardware shifts by bit_index mod 32, or
\* the result has no bit.
ShiftLeftOne(bit_index) ==
  IF bit_index < PC_BITMAP_LENGTH THEN {{bit_index}}
  ELSE {{bit_index % PC_BITMAP_LENGTH}, {}}

\* int_bitmap[row_index] |= mask
OrIntoRow(bitmap, row_index, mask) ==
  bitmap \cup {<<row_index, b>> : b \in mask}

\* The bitmaps SetDistinctEstimateBit may leave.
SetDistinctEstimateBit(bitmap, row_index, bit_index) ==
  {OrIntoRow(bitmap, row_index, mask) : mask \in ShiftLeftOne(bit_index)}

\* The values "(int_bitmap[row_index] & (1 << bit_index)) > 0" can have: one
\* for each value of the shift.
GetDistinctEstimateBit(bitmap, row_index, bit_index) ==
  {\E b \in mask : <<row_index, b>> \in bitmap : mask \in ShiftLeftOne(bit_index)}

\* AnyValUtil::Hash(input, type, seed) for seed i, from the input's hash for
\* seed 0: a rotation by i bits.
Hash(h0, seed) == {(b + seed) % PC_BITMAP_LENGTH : b \in h0}

\* The column PcUpdate sets in row i.
PcBitIndex(hash_value) ==
  IF hash_value = {} THEN PC_BITMAP_LENGTH - 1 ELSE Ctz(hash_value)

\* src.val is the input's 32-bit hash for seed 0.  Every row i gets the bit
\* of its own hash; bit_index is below PC_BITMAP_LENGTH, so "1 << bit_index"
\* is defined.
PcUpdate(src, dst) ==
  IF src.is_null THEN dst
  ELSE [dst EXCEPT !.buf =
          @ \cup {<<i, PcBitIndex(Hash(src.val, i))>> : i \in 0..(NUM_PC_BITMAPS - 1)}]

\* The values bit_index can have when PcsaUpdate sets its bit.
PcsaBitIndex(hash_value) ==
  IF hash_value = {} THEN {PC_BITMAP_LENGTH - 1}
  ELSE IF ShiftRight(hash_value, PcRowBits) = {} THEN CtzOfZero(PC_BITMAP_LENGTH)
  ELSE {Ctz(ShiftRight(hash_value, PcRowBits))}

\* The states PcsaUpdate may leave.
PcsaUpdate(src, dst) ==
  IF src.is_null THEN {dst}
  ELSE LET row_index == LowBits(src.val, PcRowBits)
       IN  {[dst EXCEPT !.buf = b] :
              b \in UNION {SetDistinctEstimateBit(dst.buf, row_index, bit_index) :
                             bit_index \in PcsaBitIndex(src.val)}}

\* PcMerge with "dst->ptr[i] = src.ptr[i]" for "|=".
PcMergeAssign(src, dst) == [dst EXCEPT !.buf = src.buf]

PcMerge(src, dst) ==
  [dst EXCEPT !.buf = @ \cup src.buf]

\* The values the condition of the scan's loop can have.  The bit is tested
\* first, and only then row_bit_count against PC_BITMAP_LENGTH.
ScanGoesOn(bitmap, i, row_bit_count) ==
  {bit /\ row_bit_count < PC_BITMAP_LENGTH :
     bit \in GetDistinctEstimateBit(bitmap, i, row_bit_count)}

\* The number of leading ones of row i: the scan of DistinceEstimateFinalize.
\* Below PC_BITMAP_LENGTH the bit test has one value, and at PC_BITMAP_LENGTH
\* the loop ends whatever the test gives.
RECURSIVE RowBitCount(_, _, _)
RowBitCount(bitmap, i, row_bit_count) ==
  IF TRUE \in ScanGoesOn(bitmap, i, row_bit_count)
  THEN RowBitCount(bitmap, i, row_bit_count + 1)
  ELSE row_bit_count

\* The columns the scan of row i passes to GetDistinctEstimateBit.
RECURSIVE ColumnsTested(_, _, _)
ColumnsTested(bitmap, i, row_bit_count) ==
  {row_bit_count} \cup
    (IF TRUE \in ScanGoesOn(bitmap, i, row_bit_count)
     THEN ColumnsTested(bitmap, i, row_bit_count + 1)
     ELSE {})

\* sum += row_bit_count over the rows: a row without a bit adds 0, so the sum
\* is taken over the rows that have one.
RECURSIVE SumRowBitCounts(_, _)
SumRowBitCounts(bitmap, rows) ==
  IF rows = {} THEN 0
  ELSE LET i == CHOOSE row \in rows : TRUE
       IN  RowBitCount(bitmap, i, 0) + SumRowBitCounts(bitmap, rows \ {i})

\* pow(2, k / 64) / PC_THETA for k = 0 .. 63, in millionths (rounded down).
\* PC_THETA is the float 0.77351f.
PowOverTheta ==
  <<1292808, 1306885, 1321116, 1335502, 1350045, 1364746, 1379607, 1394630,
    1409817, 1425169, 1440688, 1456376, 1472235, 1488266, 1504472, 1520855,
    1537416, 1554158, 1571081, 1588189, 1605483, 1622966, 1640639, 1658504,
    1676564, 1694821, 1713276, 1731933, 1750792, 1769857, 1789129, 1808612,
    1828306, 1848215, 1868341, 1888686, 1909252, 1930043, 1951060, 1972305,
    1993782, 2015493, 2037440, 2059627, 2082055, 2104727, 2127646, 2150814,
    2174235, 2197911, 2221845, 2246039, 2270497, 2295221, 2320214, 2345479,
    2371020, 2396839, 2422939, 2449323, 2475994, 2502956, 2530211, 2557764>>

Million == 1000000

\* The sum of the rows' leading ones.  A row without a bit adds 0.
SumOfRows(src) == SumRowBitCounts(src.buf, {set[1] : set \in src.buf})

\* DistinceEstimateFinalize without the "if (is_empty) return 0".
DistinceEstimateFinalizeNoEmptyCheck(src) ==
  LET sum == SumOfRows(src)
  IN  Pow2(sum \div NUM_PC_BITMAPS) * PowOverTheta[(sum % NUM_PC_BITMAPS) + 1]

\* The double DistinceEstimateFinalize returns, in millionths: 0 for a bitmap
\* without a bit, pow(2, sum / NUM_PC_BITMAPS) / PC_THETA otherwise.
DistinceEstimateFinalize(src) ==
  IF src.buf = {} THEN 0
  ELSE LET sum == SumOfRows(src)
       IN  Pow2(sum \div NUM_PC_BITMAPS) * PowOverTheta[(sum % NUM_PC_BITMAPS) + 1]

AsciiZero == 48

\* "ss << result" for an int64_t that is not negative: its decimal digits.
RECURSIVE DecimalDigits(_)
DecimalDigits(n) ==
  IF n < 10 THEN <<AsciiZero + n>>
  ELSE Append(DecimalDigits(n \div 10), AsciiZero + (n % 10))

\* StringVal dst(c, str.length()) with the digits of result copied into it.
Int64ToStringVal(result) ==
  LET str == DecimalDigits(result) IN StringVal(NULL, Len(str), str)

\* "int64_t result = estimate" rounds toward zero.
PcFinalize(c, src) ==
  LET estimate == DistinceEstimateFinalize(src)
      result == estimate \div Million
  IN  [result |-> Int64ToStringVal(result), ctx |-> Free(c, src.ptr)]

PcsaFinalize(c, src) ==
  LET estimate == DistinceEstimateFinalize(src) * NUM_PC_BITMAPS
      result == estimate \div Million
  IN  [result |-> Int64ToStringVal(result), ctx |-> Free(c, src.ptr)]

\* Hashes of the inputs of PC and PCSA (for seed 0): zero; below NUM_PC_BITMAPS
\* (5); 64 * 1 + 3.
Hash32Inputs == {NullVal, Val({}), Val({0, 2}), Val({0, 1, 6})}

(***************************************************************************)
(* HyperLogLog: HLL_LEN one-byte registers in a zeroed buffer.  buf maps   *)
(* the indexes of the registers that are not zero to their values.         *)
(***************************************************************************)
HLL_PRECISION == 10

HLL_LEN == 1024

HashBits == 64

HllInit(c) ==
  [dst |-> StringVal(NewPtr(c), HLL_LEN, [i \in {} |-> 0]), ctx |-> Allocate(c)]

\* ptr[i]
HllRegister(buf, i) == IF i \in DOMAIN buf THEN buf[i] ELSE 0

\* ptr[i] = v
HllStore(buf, i, v) ==
  [j \in (DOMAIN buf \ {i}) \cup (IF v = 0 THEN {} ELSE {i}) |->
     IF j = i THEN v ELSE buf[j]]

\* The values first_one_bit can have (a uint8_t).
HllFirstOneBit(hash_value) ==
  IF ShiftRight(hash_value, HLL_PRECISION) = {}
  THEN {(z + 1) % Byte : z \in CtzOfZero(HashBits)}
  ELSE {Ctz(ShiftRight(hash_value, HLL_PRECISION)) + 1}

\* The states HllUpdate may leave.  src.val is the input's 64-bit hash.
HllUpdate(src, dst) ==
  IF src.is_null THEN {dst}
  ELSE IF src.val = {} THEN {dst}
  ELSE LET idx == LowBits(src.val, HLL_PRECISION)
       IN  {[dst EXCEPT !.buf =
                 HllStore(@, idx, MaxOf(HllRegister(@, idx), first_one_bit))] :
              first_one_bit \in HllFirstOneBit(src.val)}

\* HllMerge with "dst->ptr[i] = src.ptr[i]" for the max.
HllMergeAssign(src, dst) == [dst EXCEPT !.buf = src.buf]

HllMerge(src, dst) ==
  [dst EXCEPT !.buf = [i \in DOMAIN @ \cup DOMAIN src.buf |->
                         MaxOf(HllRegister(@, i), HllRegister(src.buf, i))]]

\* alpha = 0.7213f / (1 + 1.079f / num_streams)
HllAlpha == FDiv(Frac(7213, 10000), FAdd(Frac(1, 1), Frac(1079, 1000 * HLL_LEN)))

\* harmonic_mean after the loop: the sum of powf(2.0f, -ptr[i]) over the
\* registers; a zero register adds 1.
RECURSIVE HarmonicSum(_, _)
HarmonicSum(buf, idxs) ==
  IF idxs = {} THEN Frac(HLL_LEN - Cardinality(DOMAIN buf), 1)
  ELSE LET i == CHOOSE x \in idxs : TRUE
       IN  FAdd(Frac(1, Pow2(buf[i])), HarmonicSum(buf, idxs \ {i}))

\* alpha * num_streams * num_streams * harmonic_mean as an int64_t.
HllRawEstimate(buf) ==
  LET harmonic_mean == FDiv(Frac(1, 1), HarmonicSum(buf, DOMAIN buf))
      estimate == FMul(FMul(HllAlpha, Frac(HLL_LEN * HLL_LEN, 1)), harmonic_mean)
  IN  estimate[1] \div estimate[2]

\* num_streams * log(num_streams / num_zero_registers) as an int64_t, by the
\* first three terms of the series of the logarithm: with k registers not zero
\* it is k + k^2 / (2 * 1024) + k^3 / (3 * 1024^2), the value of the product
\* rounded down while k is below 88.  First with the first term only.
HllLinearCountingFirstTerm(num_zero_registers) == HLL_LEN - num_zero_registers

HllLinearCounting(num_zero_registers) ==
  LET m == HLL_LEN
      k == HLL_LEN - num_zero_registers
  IN  (6 * m * m * k + 3 * m * k * k + 2 * k * k * k) \div (6 * m * m)

HllFinalize(c, src) ==
  LET num_zero_registers == HLL_LEN - Cardinality(DOMAIN src.buf)
      estimate == IF num_zero_registers # 0
                  THEN HllLinearCounting(num_zero_registers)
                  ELSE HllRawEstimate(src.buf)
  IN  [result |-> Int64ToStringVal(estimate), ctx |-> Free(c, src.ptr)]

\* Hashes of the inputs of HLL: zero; below HLL_LEN (5); 1024 * 4 + 3.
Hash64Inputs == {NullVal, Val({}), Val({0, 2}), Val({0, 1, 12})}

(***************************************************************************)
(* Knuth variance: KnuthVarianceState {double mean; double m2; int64_t     *)
(* count}.  The doubles are kept as exact rationals.                       *)
(***************************************************************************)
SizeofKnuthVarianceState == 24

KnuthVarInit(c) ==
  [dst |-> StringVal(NewPtr(c), SizeofKnuthVarianceState,
                     [mean |-> FromInt(0), m2 |-> FromInt(0), count |-> 0]),
   ctx |-> Allocate(c)]

KnuthVarUpdate(src, dst) ==
  IF src.is_null THEN dst
  ELSE LET state == dst.buf
           temp  == 1 + state.count
           delta == FSub(FromInt(src.val), state.mean)
           r     == FDiv(delta, FromInt(temp))
       IN  [dst EXCEPT !.buf =
              [mean  |-> FAdd(state.mean, r),
               m2    |-> FAdd(state.m2, FMul(FMul(FromInt(state.count), delta), r)),
               count |-> temp]]

\* KnuthVarMerge adding the two m2 without the term of the two means.
KnuthVarMergeAddM2(src, dst) ==
  LET src_state == src.buf
      dst_state == dst.buf
      delta     == FSub(dst_state.mean, src_state.mean)
      sum_count == dst_state.count + src_state.count
  IN  IF src_state.count = 0 THEN dst
      ELSE [dst EXCEPT !.buf =
              [mean  |-> FAdd(src_state.mean,
                              FMul(delta, Frac(dst_state.count, sum_count))),
               m2    |-> FAdd(src_state.m2, dst_state.m2),
               count |-> sum_count]]

KnuthVarMerge(src, dst) ==
  LET src_state == src.buf
      dst_state == dst.buf
      delta     == FSub(dst_state.mean, src_state.mean)
      sum_count == dst_state.count + src_state.count
  IN  IF src_state.count = 0 THEN dst
      ELSE [dst EXCEPT !.buf =
              [mean  |-> FAdd(src_state.mean,
                              FMul(delta, Frac(dst_state.count, sum_count))),
               m2    |-> FAdd(FAdd(src_state.m2, dst_state.m2),
                              FMul(FMul(delta, delta),
                                   Frac(src_state.count * dst_state.count, sum_count))),
               count |-> sum_count]]

\* ComputeKnuthVariance dividing by count whatever pop is.
ComputeKnuthVariancePopOnly(state, pop) ==
  IF state.count = 1 THEN FromInt(0)
  ELSE FDiv(state.m2, FromInt(state.count))

ComputeKnuthVariance(state, pop) ==
  IF state.count = 1 THEN FromInt(0)
  ELSE IF pop THEN FDiv(state.m2, FromInt(state.count))
  ELSE FDiv(state.m2, FromInt(state.count - 1))

\* A finalizer's value.  val is the variance, sqrt tells that the value is
\* sqrt(val), and text that it is returned as a StringVal holding the text of
\* the double rather than as a DoubleVal.
KnuthResult(variance, sqrt) ==
  [is_null |-> FALSE, val |-> variance, sqrt |-> sqrt, text |-> FALSE]

\* DoubleVal::null()
KnuthNull == [is_null |-> TRUE, val |-> FromInt(0), sqrt |-> FALSE, text |-> FALSE]

\* ToStringVal(ctx, val): a StringVal with what "ss << val" writes, the double
\* in decimal notation with six significant digits.
ToStringVal(val) == [val EXCEPT !.text = TRUE]

KnuthVarFinalize(c, state_sv) ==
  IF state_sv.buf.count = 0 THEN [result |-> KnuthNull, ctx |-> c]
  ELSE [result |-> KnuthResult(ComputeKnuthVariance(state_sv.buf, FALSE), FALSE),
        ctx |-> c]

KnuthVarPopFinalize(c, state_sv) ==
  LET c1 == Free(c, state_sv.ptr)
  IN  IF state_sv.buf.count = 0 THEN [result |-> NullString, ctx |-> c1]
      ELSE [result |-> ToStringVal(KnuthResult(ComputeKnuthVariance(state_sv.buf, TRUE),
                                               FALSE)),
            ctx |-> c1]

KnuthStddevFinalize(c, state_sv) ==
  LET c1 == Free(c, state_sv.ptr)
  IN  IF state_sv.buf.count = 0 THEN [result |-> NullString, ctx |-> c1]
      ELSE [result |-> ToStringVal(KnuthResult(ComputeKnuthVariance(state_sv.buf, FALSE),
                                               TRUE)),
            ctx |-> c1]

KnuthStddevPopFinalize(c, state_sv) ==
  LET c1 == Free(c, state_sv.ptr)
  IN  IF state_sv.buf.count = 0 THEN [result |-> NullString, ctx |-> c1]
      ELSE [result |-> ToStringVal(KnuthResult(ComputeKnuthVariance(state_sv.buf, TRUE),
                                               TRUE)),
            ctx |-> c1]

(***************************************************************************)
(* Rank and dense rank: RankState {int64_t rank; int64_t count}.           *)
(***************************************************************************)
SizeofRankState == 16

RankInit(c) ==
  [dst |-> StringVal(NewPtr(c), SizeofRankState, [rank |-> 1, count |-> 0]),
   ctx |-> Allocate(c)]

RankUpdate(dst) == [dst EXCEPT !.buf.count = @ + 1]

DenseRankUpdate(dst) == dst

\* RankGetValue without "state->count = 0".
RankGetValueKeepCount(src_val) ==
  [result |-> Val(src_val.buf.rank),
   dst |-> [src_val EXCEPT !.buf = [rank |-> @.rank + @.count, count |-> @.count]]]

RankGetValue(src_val) ==
  [result |-> Val(src_val.buf.rank),
   dst |-> [src_val EXCEPT !.buf = [rank |-> @.rank + @.count, count |-> 0]]]

\* DenseRankGetValue advancing the rank as RankGetValue does, by count.
DenseRankGetValueAddCount(src_val) ==
  [result |-> Val(src_val.buf.rank),
   dst |-> [src_val EXCEPT !.buf.rank = @ + src_val.buf.count]]

DenseRankGetValue(src_val) ==
  [result |-> Val(src_val.buf.rank),
   dst |-> [src_val EXCEPT !.buf.rank = @ + 1]]

\* RankFinalize returning the rank of the rows not yet ranked: rank + count.
RankFinalizeAddCount(c, src_val) ==
  [result |-> Val(src_val.buf.rank + src_val.buf.count), ctx |-> Free(c, src_val.ptr)]

RankFinalize(c, src_val) ==
  [result |-> Val(src_val.buf.rank), ctx |-> Free(c, src_val.ptr)]

(***************************************************************************)
(* Reservoir sampling (sample, histogram, appx_median).  The state is      *)
(* ReservoirSampleState<T>: samples[NUM_SAMPLES] of {val, key}, num_samples,*)
(* source_size and the generator rng.  The source's NUM_BUCKETS = 100 and  *)
(* NUM_SAMPLES_PER_BUCKET = 200 are scaled down to keep the array small.   *)
(***************************************************************************)
NUM_BUCKETS == 2

NUM_SAMPLES_PER_BUCKET == 1

NUM_SAMPLES == NUM_BUCKETS * NUM_SAMPLES_PER_BUCKET

\* sizeof(ReservoirSampleState<T>), counted in slots: the samples, then
\* num_samples, source_size and rng.
SizeofReservoirSampleState == NUM_SAMPLES + 3

\* key(-1): no key assigned yet.
NoKey == FromInt(-1)

ReservoirSample(val) == [val |-> val, key |-> NoKey]

\* ReservoirSample(): the slots of a fresh state.
EmptySample == [val |-> 0, key |-> NoKey]

ReservoirSampleInit(c) ==
  [dst |-> StringVal(NewPtr(c), SizeofReservoirSampleState,
                     [samples |-> [i \in 0..(NUM_SAMPLES - 1) |-> EmptySample],
                      num_samples |-> 0, source_size |-> 0, rng |-> 0]),
   ctx |-> Allocate(c)]

\* The seeds the generator's stream is drawn from: a default-constructed
\* ranlux64_3 has one fixed stream, which the model leaves open.
RngSeeds == {0, 1, 2}

\* ReservoirSampleState::GetNext64(max): the next draw of the stream, in [0, max].
GetNext64(seed, rng, max) == (seed + rng) % (max + 1)

\* ReservoirSampleUpdate without "++state->source_size" once the reservoir is full.
ReservoirSampleUpdateKeepSize(seed, src, dst) ==
  IF src.is_null THEN dst
  ELSE LET state == dst.buf
       IN  IF state.num_samples < NUM_SAMPLES
           THEN [dst EXCEPT !.buf =
                   [state EXCEPT !.samples[state.num_samples] = ReservoirSample(src.val),
                                 !.num_samples = @ + 1,
                                 !.source_size = @ + 1]]
           ELSE LET r == GetNext64(seed, state.rng, state.source_size)
                IN  [dst EXCEPT !.buf =
                       [state EXCEPT !.samples = IF r < NUM_SAMPLES
                                                 THEN [@ EXCEPT ![r] = ReservoirSample(src.val)]
                                                 ELSE @,
                                     !.rng = @ + 1]]

ReservoirSampleUpdate(seed, src, dst) ==
  IF src.is_null THEN dst
  ELSE LET state == dst.buf
       IN  IF state.num_samples < NUM_SAMPLES
           THEN [dst EXCEPT !.buf =
                   [state EXCEPT !.samples[state.num_samples] = ReservoirSample(src.val),
                                 !.num_samples = @ + 1,
                                 !.source_size = @ + 1]]
           ELSE LET r == GetNext64(seed, state.rng, state.source_size)
                IN  [dst EXCEPT !.buf =
                       [state EXCEPT !.samples = IF r < NUM_SAMPLES
                                                 THEN [@ EXCEPT ![r] = ReservoirSample(src.val)]
                                                 ELSE @,
                                     !.rng = @ + 1,
                                     !.source_size = @ + 1]]

\* The values rand() returns.
RandValues == {0, 1}

\* ReservoirSampleSerialize without the loop that assigns the keys.
ReservoirSampleSerializeNoKeys(c, src) ==
  IF src.is_null THEN {[dst |-> src, ctx |-> c]}
  ELSE {[dst |-> StringVal(NULL, src.len, src.buf), ctx |-> Free(c, src.ptr)]}

\* ReservoirSampleSerialize without "if (state->samples[i].key >= 0) continue":
\* every occupied slot gets a new key.
ReservoirSampleSerializeNewKeys(c, src) ==
  IF src.is_null THEN {[dst |-> src, ctx |-> c]}
  ELSE LET state == src.buf
           n     == state.num_samples
       IN  {[dst |-> StringVal(NULL, src.len,
                       [state EXCEPT !.samples =
                          [i \in 0..(NUM_SAMPLES - 1) |->
                             IF i < n
                             THEN [@[i] EXCEPT !.key =
                                     Frac(state.source_size - r[i], state.source_size)]
                             ELSE @[i]]]),
             ctx |-> Free(c, src.ptr)] :
              r \in [0..(n - 1) -> IF n = 0 THEN {} ELSE {x % n : x \in RandValues}]}

\* The states ReservoirSampleSerialize may return: every sample without a key
\* gets (source_size - r) / source_size for r = rand() % num_samples.  The
\* result is a StringVal(ctx, len), which the context owns; src.ptr is freed.
ReservoirSampleSerialize(c, src) ==
  IF src.is_null THEN {[dst |-> src, ctx |-> c]}
  ELSE LET state == src.buf
           n     == state.num_samples
       IN  {[dst |-> StringVal(NULL, src.len,
                       [state EXCEPT !.samples =
                          [i \in 0..(NUM_SAMPLES - 1) |->
                             IF i < n /\ ~(FLess(@[i].key, FromInt(0)))
                             THEN @[i]
                             ELSE IF i < n
                             THEN [@[i] EXCEPT !.key =
                                     Frac(state.source_size - r[i], state.source_size)]
                             ELSE @[i]]]),
             ctx |-> Free(c, src.ptr)] :
              r \in [0..(n - 1) -> IF n = 0 THEN {} ELSE {x % n : x \in RandValues}]}

SampleKeyGreater(i, j) == FLess(j.key, i.key)

SampleValLess(i, j) == i.val < j.val

\* std::push_heap over first[0 .. len): sift the last element up.
RECURSIVE PushHeapFrom(_, _, _)
PushHeapFrom(first, holeIndex, value) ==
  LET parent == (holeIndex - 1) \div 2
  IN  IF holeIndex > 0 /\ SampleKeyGreater(first[parent], value)
      THEN PushHeapFrom([first EXCEPT ![holeIndex] = first[parent]], parent, value)
      ELSE [first EXCEPT ![holeIndex] = value]

PushHeap(first, len) == PushHeapFrom(first, len - 1, first[len - 1])

\* std::__adjust_heap: move the hole at the root down to a leaf.
RECURSIVE AdjustHeapDown(_, _, _)
AdjustHeapDown(first, secondChild, len) ==
  IF secondChild < (len - 1) \div 2
  THEN LET right == 2 * (secondChild + 1)
           child == IF SampleKeyGreater(first[right], first[right - 1])
                    THEN right - 1 ELSE right
       IN  AdjustHeapDown([first EXCEPT ![secondChild] = first[child]], child, len)
  ELSE IF len % 2 = 0 /\ secondChild = (len - 2) \div 2
  THEN [first |-> [first EXCEPT ![secondChild] = first[2 * (secondChild + 1) - 1]],
        holeIndex |-> 2 * (secondChild + 1) - 1]
  ELSE [first |-> first, holeIndex |-> secondChild]

\* std::pop_heap over first[0 .. len): the root goes to first[len - 1].
PopHeap(first, len) ==
  IF len > 1
  THEN LET value == first[len - 1]
           moved == [first EXCEPT ![len - 1] = first[0]]
           down  == AdjustHeapDown(moved, 0, len - 1)
       IN  PushHeapFrom(down.first, down.holeIndex, value)
  ELSE first

\* The first loop without push_heap: the source's samples are appended.
RECURSIVE MergeFillNoPushHeap(_, _, _)
MergeFillNoPushHeap(src, dst, src_idx) ==
  IF dst.num_samples < NUM_SAMPLES /\ src_idx < src.num_samples
  THEN MergeFillNoPushHeap(src,
         [dst EXCEPT !.samples = [@ EXCEPT ![dst.num_samples] = src.samples[src_idx]],
                     !.num_samples = @ + 1],
         src_idx + 1)
  ELSE [dst |-> dst, src_idx |-> src_idx]

\* The first loop of ReservoirSampleMerge: fill dst while it has free slots.
RECURSIVE MergeFill(_, _, _)
MergeFill(src, dst, src_idx) ==
  IF dst.num_samples < NUM_SAMPLES /\ src_idx < src.num_samples
  THEN MergeFill(src,
         [dst EXCEPT !.samples = PushHeap([@ EXCEPT ![dst.num_samples] = src.samples[src_idx]],
                                          dst.num_samples + 1),
                     !.num_samples = @ + 1],
         src_idx + 1)
  ELSE [dst |-> dst, src_idx |-> src_idx]

\* The second loop without the comparison of the keys: every source sample
\* replaces the minimum.
RECURSIVE MergeReplaceAlways(_, _, _)
MergeReplaceAlways(src, dst, src_idx) ==
  IF src_idx < src.num_samples
  THEN MergeReplaceAlways(src,
         [dst EXCEPT !.samples =
            PushHeap([PopHeap(@, NUM_SAMPLES) EXCEPT ![NUM_SAMPLES - 1] =
                        src.samples[src_idx]], NUM_SAMPLES)],
         src_idx + 1)
  ELSE dst

\* The second loop: a source sample replaces the minimum when its key is greater.
RECURSIVE MergeReplace(_, _, _)
MergeReplace(src, dst, src_idx) ==
  IF src_idx < src.num_samples
  THEN MergeReplace(src,
         IF FLess(dst.samples[0].key, src.samples[src_idx].key)
         THEN [dst EXCEPT !.samples =
                 PushHeap([PopHeap(@, NUM_SAMPLES) EXCEPT ![NUM_SAMPLES - 1] =
                             src.samples[src_idx]], NUM_SAMPLES)]
         ELSE dst,
         src_idx + 1)
  ELSE dst

\* ReservoirSampleMerge without "dst->source_size += src->source_size".
ReservoirSampleMergeKeepSize(src_val, dst_val) ==
  IF src_val.is_null THEN dst_val
  ELSE LET filled   == MergeFill(src_val.buf, dst_val.buf, 0)
           replaced == MergeReplace(src_val.buf, filled.dst, filled.src_idx)
       IN  [dst_val EXCEPT !.buf = replaced]

ReservoirSampleMerge(src_val, dst_val) ==
  IF src_val.is_null THEN dst_val
  ELSE LET filled   == MergeFill(src_val.buf, dst_val.buf, 0)
           replaced == MergeReplace(src_val.buf, filled.dst, filled.src_idx)
       IN  [dst_val EXCEPT !.buf =
              [replaced EXCEPT !.source_size = @ + src_val.buf.source_size]]

MinusSign == 45

\* PrintSample: "*os << v.val.val", the decimal text of the sample's value.
PrintSample(v) ==
  IF v.val < 0 THEN <<MinusSign>> \o DecimalDigits(0 - v.val) ELSE DecimalDigits(v.val)

\* out << ", "
ListSeparator == <<44, 32>>

\* The finalizers' loops: PrintSample of the slots idxs[from], idxs[from + 1], ...
\* with ", " after each one but the last.
RECURSIVE PrintSamples(_, _, _)
PrintSamples(samples, idxs, from) ==
  IF from > Len(idxs) THEN <<>>
  ELSE PrintSample(samples[idxs[from]])
         \o (IF from < Len(idxs) THEN ListSeparator ELSE <<>>)
         \o PrintSamples(samples, idxs, from + 1)

\* StringVal result_str(ctx, out_str.size()) with out_str copied into it.
ResultString(out_str) == StringVal(NULL, Len(out_str), out_str)

ReservoirSampleFinalize(c, src_val) ==
  LET src == src_val.buf
  IN  [result |-> ResultString(PrintSamples(src.samples,
                                            [i \in 1..src.num_samples |-> i - 1], 1)),
       ctx |-> Free(c, src_val.ptr)]

\* std::sort(samples, samples + n, SampleValLess) leaves samples[0 .. n) in
\* ascending order of SampleValLess.  The place of samples[i] in that order:
\* the number of samples that are less, and of the equal ones before it (how
\* equal samples are ordered does not show in what is printed).
SortedIndex(samples, n, i) ==
  Cardinality({j \in 0..(n - 1) :
                 \/ SampleValLess(samples[j], samples[i])
                 \/ (~SampleValLess(samples[i], samples[j]) /\ j < i)})

\* The array after the sort; the slots from n on are as they were.
SortSamples(samples, first, n) ==
  [k \in DOMAIN samples |->
     IF k < n
     THEN samples[CHOOSE i \in first..(n - 1) : SortedIndex(samples, n, i) = k]
     ELSE samples[k]]

\* The slots HistogramFinalize prints, in order: sample_idx for bucket_idx =
\* 0 .. num_buckets - 1 (here numbered from 1).
HistogramSampleIdx(num_samples) ==
  LET num_buckets == MinOf(num_samples, NUM_BUCKETS)
      samples_per_bucket == MaxOf(num_samples \div NUM_BUCKETS, 1)
  IN  [bucket_idx \in 1..num_buckets |-> bucket_idx * samples_per_bucket - 1]

\* HistogramFinalize without the sort.
HistogramFinalizeNoSort(c, src_val) ==
  LET src    == src_val.buf
      sample_idx == HistogramSampleIdx(src.num_samples)
  IN  [result |-> ResultString(PrintSamples(src.samples, sample_idx, 1)),
       ctx |-> Free(c, src_val.ptr)]

HistogramFinalize(c, src_val) ==
  LET src    == src_val.buf
      sorted == SortSamples(src.samples, 0, src.num_samples)
      sample_idx == HistogramSampleIdx(src.num_samples)
  IN  [result |-> ResultString(PrintSamples(sorted, sample_idx, 1)),
       ctx |-> Free(c, src_val.ptr)]

\* The slot AppxMedianFinalize prints: samples[src->num_samples / 2].
AppxMedianSampleIdx(num_samples) == num_samples \div 2

\* AppxMedianFinalize without the sort.
AppxMedianFinalizeNoSort(c, src_val) ==
  LET src == src_val.buf
  IN  [result |-> ResultString(PrintSample(src.samples[AppxMedianSampleIdx(src.num_samples)])),
       ctx |-> Free(c, src_val.ptr)]

AppxMedianFinalize(c, src_val) ==
  LET src    == src_val.buf
      sorted == SortSamples(src.samples, 0, src.num_samples)
  IN  [result |-> ResultString(PrintSample(sorted[AppxMedianSampleIdx(src.num_samples)])),
       ctx |-> Free(c, src_val.ptr)]

(***************************************************************************)
(* The state machine.                                                      *)
(***************************************************************************)
ScalarAggs == {"count", "sum", "min", "max"}

DecimalAggs == {"sum_decimal", "min_decimal", "max_decimal", "decimal_avg"}

Aggs == ScalarAggs \cup DecimalAggs \cup
        {"min_string", "max_string", "min_timestamp", "max_timestamp",
         "avg", "timestamp_avg", "string_concat", "pc", "pcsa", "hll",
         "reservoir", "knuth_var", "rank", "dense_rank"}

\* ctx->GetArgType(0) and what else is fixed for the query.
Descs(a) ==
  IF a \in DecimalAggs THEN {[precision |-> pr, seed |-> 0] : pr \in Precisions}
  ELSE IF a = "reservoir" THEN {[precision |-> 0, seed |-> sd] : sd \in RngSeeds}
  ELSE {[precision |-> 0, seed |-> 0]}

\* The registered init function of aggregate a, called with context c.
InitFn(a, c) ==
  CASE a = "count" -> [dst |-> InitZero, ctx |-> c]
    [] a = "sum" -> [dst |-> InitNullBigInt, ctx |-> c]
    [] a \in {"min", "max"} -> [dst |-> InitNull, ctx |-> c]
    [] a \in {"sum_decimal", "min_decimal", "max_decimal"} ->
         [dst |-> NullDecimal, ctx |-> c]
    [] a \in {"min_timestamp", "max_timestamp"} -> [dst |-> NullTimestamp, ctx |-> c]
    [] a \in {"min_string", "max_string", "string_concat"} ->
         [dst |-> InitNullString, ctx |-> c]
    [] a \in {"avg", "timestamp_avg"} -> AvgInit(c)
    [] a = "decimal_avg" -> DecimalAvgInit(c)
    [] a \in {"pc", "pcsa"} -> PcInit(c)
    [] a = "hll" -> HllInit(c)
    [] a = "reservoir" -> ReservoirSampleInit(c)
    [] a = "knuth_var" -> KnuthVarInit(c)
    [] a \in {"rank", "dense_rank"} -> RankInit(c)

\* The state of partial state p after init has run for 1 .. p.
RECURSIVE InitUpTo(_, _)
InitUpTo(a, p) ==
  IF p = 0 THEN [dst |-> <<>>, ctx |-> NewCtx]
  ELSE LET before == InitUpTo(a, p - 1)
           this   == InitFn(a, before.ctx)
       IN  [dst |-> Append(before.dst, this.dst), ctx |-> this.ctx]

\* The last call: its kind and function, the partial state it was made on,
\* the partial state merged in (0 if none), whether its input was null, the
\* value and the context it started from, and what the decimal division it
\* made returned.
NoCall == [kind |-> "init", op |-> "init", part |-> 0, from |-> 0,
           is_null |-> FALSE, pre |-> <<>>, prectx |-> NewCtx, divided |-> NoDivide]

Init ==
  /\ agg \in Aggs
  /\ desc \in Descs(agg)
  /\ st = [p \in Parts |-> InitUpTo(agg, Cardinality(Parts)).dst[p]]
  /\ ctx = InitUpTo(agg, Cardinality(Parts)).ctx
  /\ out = [p \in Parts |-> [phase |-> "open", result |-> <<>>]]
  /\ hist = [p \in Parts |-> <<>>]
  /\ cnt = [rows |-> 0, merges |-> 0]
  /\ last = NoCall

Open(p) == out[p].phase = "open"

Call(kind, op, p, q, is_null) ==
  [kind |-> kind, op |-> op, part |-> p, from |-> q, is_null |-> is_null,
   pre |-> st[p], prectx |-> ctx, divided |-> NoDivide]

AllOpen == \A p \in Parts : out[p].phase # "finalized"

\* An update call on partial state p with input src (row is what hist keeps),
\* leaving state d and context c.
Update(op, p, src, is_null, row, d, c) ==
  /\ Open(p)
  /\ AllOpen
  /\ is_null \/ cnt.rows < MaxRows
  /\ st' = [st EXCEPT ![p] = d]
  /\ ctx' = c
  /\ hist' = [hist EXCEPT ![p] = IF is_null THEN @ ELSE Append(@, row)]
  /\ cnt' = [cnt EXCEPT !.rows = IF is_null THEN @ ELSE @ + 1]
  /\ last' = Call("update", op, p, 0, is_null)
  /\ UNCHANGED <<agg, desc, out>>

\* A merge call: the intermediate value of q is merged into p.
Merge(op, p, q, d, c) ==
  /\ p # q
  /\ Open(p)
  /\ AllOpen
  /\ cnt.merges < MaxMerges
  /\ st' = [st EXCEPT ![p] = d]
  /\ ctx' = c
  /\ hist' = [hist EXCEPT ![p] = @ \o hist[q]]
  /\ cnt' = [cnt EXCEPT !.merges = @ + 1]
  /\ last' = Call("merge", op, p, q, FALSE)
  /\ UNCHANGED <<agg, desc, out>>

\* A finalize call on p, returning result and leaving context c.
Finalize(op, p, result, c) ==
  /\ Open(p)
  /\ AllOpen
  /\ ctx' = c
  /\ out' = [out EXCEPT ![p] = [phase |-> "finalized", result |-> result]]
  /\ last' = Call("finalize", op, p, 0, FALSE)
  /\ UNCHANGED <<agg, desc, st, hist, cnt>>

(***************************************************************************)
(* Count, Sum, Min, Max.                                                   *)
(***************************************************************************)
CountUpdateStep(p) ==
  /\ agg = "count"
  /\ \E src \in IntInputs :
       Update("CountUpdate", p, src, src.is_null, src, CountUpdate(src, st[p]), ctx)

CountStarUpdateStep(p) ==
  /\ agg = "count"
  /\ Update("CountStarUpdate", p, <<>>, FALSE, Val(0), CountStarUpdate(st[p]), ctx)

CountMergeStep(p, q) ==
  /\ agg = "count"
  /\ Open(q)
  /\ Merge("CountMerge", p, q, CountMerge(st[q], st[p]), ctx)

SumStep(p) ==
  /\ agg = "sum"
  /\ \E src \in BigIntInputs :
       Update("Sum", p, src, src.is_null, src, Sum(src, st[p]), ctx)

SumMergeIntStep(p, q) ==
  /\ agg = "sum"
  /\ Open(q)
  /\ Merge("Sum", p, q, Sum(st[q], st[p]), ctx)

SumUpdateStep(p) ==
  /\ agg = "sum_decimal"
  /\ \E src \in DecimalInputs(desc.precision) :
       Update("SumUpdate", p, src, src.is_null, src,
              SumUpdate(desc.precision, src, st[p]), ctx)

SumMergeStep(p, q) ==
  /\ agg = "sum_decimal"
  /\ Open(q)
  /\ Merge("SumMerge", p, q, SumMerge(st[q], st[p]), ctx)

MinStep(p) ==
  /\ agg = "min"
  /\ \E src \in IntInputs :
       Update("Min", p, src, src.is_null, src, Min(src, st[p]), ctx)

MinMergeStep(p, q) ==
  /\ agg = "min"
  /\ Open(q)
  /\ Merge("Min", p, q, Min(st[q], st[p]), ctx)

MaxStep(p) ==
  /\ agg = "max"
  /\ \E src \in IntInputs :
       Update("Max", p, src, src.is_null, src, Max(src, st[p]), ctx)

MaxMergeStep(p, q) ==
  /\ agg = "max"
  /\ Open(q)
  /\ Merge("Max", p, q, Max(st[q], st[p]), ctx)

MinStringStep(p) ==
  /\ agg = "min_string"
  /\ \E src \in StringInputs :
       LET r == MinString(ctx, src, st[p])
       IN  Update("Min", p, src, src.is_null, src, r.dst, r.ctx)

MinStringMergeStep(p, q) ==
  /\ agg = "min_string"
  /\ Open(q)
  /\ LET r == MinString(ctx, st[q], st[p])
     IN  Merge("Min", p, q, r.dst, r.ctx)

MaxStringStep(p) ==
  /\ agg = "max_string"
  /\ \E src \in StringInputs :
       LET r == MaxString(ctx, src, st[p])
       IN  Update("Max", p, src, src.is_null, src, r.dst, r.ctx)

MaxStringMergeStep(p, q) ==
  /\ agg = "max_string"
  /\ Open(q)
  /\ LET r == MaxString(ctx, st[q], st[p])
     IN  Merge("Max", p, q, r.dst, r.ctx)

MinDecimalStep(p) ==
  /\ agg = "min_decimal"
  /\ \E src \in DecimalInputs(desc.precision) :
       Update("Min", p, src, src.is_null, src,
              MinDecimal(desc.precision, src, st[p]), ctx)

MinDecimalMergeStep(p, q) ==
  /\ agg = "min_decimal"
  /\ Open(q)
  /\ Merge("Min", p, q, MinDecimal(desc.precision, st[q], st[p]), ctx)

MaxDecimalStep(p) ==
  /\ agg = "max_decimal"
  /\ \E src \in DecimalInputs(desc.precision) :
       Update("Max", p, src, src.is_null, src,
              MaxDecimal(desc.precision, src, st[p]), ctx)

MaxDecimalMergeStep(p, q) ==
  /\ agg = "max_decimal"
  /\ Open(q)
  /\ Merge("Max", p, q, MaxDecimal(desc.precision, st[q], st[p]), ctx)

MinTimestampStep(p) ==
  /\ agg = "min_timestamp"
  /\ \E src \in TimestampInputs :
       Update("Min", p, src, src.is_null, src, MinTimestamp(src, st[p]), ctx)

MinTimestampMergeStep(p, q) ==
  /\ agg = "min_timestamp"
  /\ Open(q)
  /\ Merge("Min", p, q, MinTimestamp(st[q], st[p]), ctx)

MaxTimestampStep(p) ==
  /\ agg = "max_timestamp"
  /\ \E src \in TimestampInputs :
       Update("Max", p, src, src.is_null, src, MaxTimestamp(src, st[p]), ctx)

MaxTimestampMergeStep(p, q) ==
  /\ agg = "max_timestamp"
  /\ Open(q)
  /\ Merge("Max", p, q, MaxTimestamp(st[q], st[p]), ctx)

\* The scalar folds have no finalize function: the accumulator is the result.
\* String Min/Max finalize with StringValSerializeOrFinalize.
StringValGetValue(src) ==
  IF src.is_null THEN src ELSE StringVal(NULL, src.len, src.buf)

StringValSerializeOrFinalize(c, src) ==
  [result |-> StringValGetValue(src), ctx |-> Free(c, src.ptr)]

StringValFinalizeStep(p) ==
  /\ agg \in {"min_string", "max_string"}
  /\ LET r == StringValSerializeOrFinalize(ctx, st[p])
     IN  Finalize("StringValSerializeOrFinalize", p, r.result, r.ctx)

(***************************************************************************)
(* Averages.                                                               *)
(***************************************************************************)
AvgUpdateStep(p) ==
  /\ agg = "avg"
  /\ \E src \in IntInputs :
       Update("AvgUpdate", p, src, src.is_null, src, AvgUpdate(src, st[p]), ctx)

TimestampAvgUpdateStep(p) ==
  /\ agg = "timestamp_avg"
  /\ \E src \in TimestampInputs :
       Update("TimestampAvgUpdate", p, src, src.is_null, src,
              TimestampAvgUpdate(src, st[p]), ctx)

AvgMergeStep(p, q) ==
  /\ agg \in {"avg", "timestamp_avg"}
  /\ Open(q)
  /\ Merge("AvgMerge", p, q, AvgMerge(st[q], st[p]), ctx)

AvgFinalizeStep(p) ==
  /\ agg = "avg"
  /\ LET r == AvgFinalize(ctx, st[p])
     IN  Finalize("AvgFinalize", p, r.result, r.ctx)

TimestampAvgFinalizeStep(p) ==
  /\ agg = "timestamp_avg"
  /\ LET r == TimestampAvgFinalize(ctx, st[p])
     IN  Finalize("TimestampAvgFinalize", p, r.result, r.ctx)

DecimalAvgUpdateStep(p) ==
  /\ agg = "decimal_avg"
  /\ \E src \in DecimalInputs(desc.precision) :
       Update("DecimalAvgUpdate", p, src, src.is_null, src,
              DecimalAvgUpdate(desc.precision, src, st[p]), ctx)

DecimalAvgMergeStep(p, q) ==
  /\ agg = "decimal_avg"
  /\ Open(q)
  /\ Merge("DecimalAvgMerge", p, q, DecimalAvgMerge(st[q], st[p]), ctx)

\* The division is made only for a count that is not 0.
DecimalAvgFinalizeStep(p) ==
  /\ agg = "decimal_avg"
  /\ Open(p)
  /\ AllOpen
  /\ \E divided \in IF st[p].buf.count = 0 THEN {NoDivide}
                    ELSE Divide(st[p].buf.sum, st[p].buf.count) :
       LET r == DecimalAvgFinalize(ctx, st[p], divided)
       IN  /\ ctx' = r.ctx
           /\ out' = [out EXCEPT ![p] = [phase |-> "finalized", result |-> r.result]]
           /\ last' = [Call("finalize", "DecimalAvgFinalize", p, 0, FALSE)
                         EXCEPT !.divided = divided]
  /\ UNCHANGED <<agg, desc, st, hist, cnt>>

(***************************************************************************)
(* StringConcat.                                                           *)
(***************************************************************************)
StringConcatUpdateStep(p) ==
  /\ agg = "string_concat"
  /\ \E row \in ConcatRows :
       LET r == StringConcatUpdate(ctx, row.val, row.separator, st[p])
       IN  Update("StringConcatUpdate", p, row, row.val.is_null, row, r.dst, r.ctx)

StringConcatMergeStep(p, q) ==
  /\ agg = "string_concat"
  /\ Open(q)
  /\ LET r == StringConcatMerge(ctx, st[q], st[p])
     IN  Merge("StringConcatMerge", p, q, r.dst, r.ctx)

StringConcatFinalizeStep(p) ==
  /\ agg = "string_concat"
  /\ LET r == StringConcatFinalize(ctx, st[p])
     IN  Finalize("StringConcatFinalize", p, r.result, r.ctx)

(***************************************************************************)
(* Distinct estimates.                                                     *)
(***************************************************************************)
PcUpdateStep(p) ==
  /\ agg = "pc"
  /\ \E src \in Hash32Inputs :
       Update("PcUpdate", p, src, src.is_null, src, PcUpdate(src, st[p]), ctx)

PcsaUpdateStep(p) ==
  /\ agg = "pcsa"
  /\ \E src \in Hash32Inputs :
       \E d \in PcsaUpdate(src, st[p]) :
          Update("PcsaUpdate", p, src, src.is_null, src, d, ctx)

PcMergeStep(p, q) ==
  /\ agg \in {"pc", "pcsa"}
  /\ Open(q)
  /\ Merge("PcMerge", p, q, PcMerge(st[q], st[p]), ctx)

PcFinalizeStep(p) ==
  /\ agg = "pc"
  /\ LET r == PcFinalize(ctx, st[p])
     IN  Finalize("PcFinalize", p, r.result, r.ctx)

PcsaFinalizeStep(p) ==
  /\ agg = "pcsa"
  /\ LET r == PcsaFinalize(ctx, st[p])
     IN  Finalize("PcsaFinalize", p, r.result, r.ctx)

HllUpdateStep(p) ==
  /\ agg = "hll"
  /\ \E src \in Hash64Inputs :
       \E d \in HllUpdate(src, st[p]) :
          Update("HllUpdate", p, src, src.is_null, src, d, ctx)

HllMergeStep(p, q) ==
  /\ agg = "hll"
  /\ Open(q)
  /\ Merge("HllMerge", p, q, HllMerge(st[q], st[p]), ctx)

HllFinalizeStep(p) ==
  /\ agg = "hll"
  /\ LET r == HllFinalize(ctx, st[p])
     IN  Finalize("HllFinalize", p, r.result, r.ctx)

(***************************************************************************)
(* Reservoir sampling.  A partial state is serialized before it is merged  *)
(* into another one; a serialized state is not finalized.                  *)
(***************************************************************************)
ReservoirSampleUpdateStep(p) ==
  /\ agg = "reservoir"
  /\ \E src \in IntInputs :
       Update("ReservoirSampleUpdate", p, src, src.is_null, src,
              ReservoirSampleUpdate(desc.seed, src, st[p]), ctx)

ReservoirSampleSerializeStep(p) ==
  /\ agg = "reservoir"
  /\ Open(p)
  /\ AllOpen
  /\ \E r \in ReservoirSampleSerialize(ctx, st[p]) :
       /\ st' = [st EXCEPT ![p] = r.dst]
       /\ ctx' = r.ctx
       /\ out' = [out EXCEPT ![p] = [phase |-> "serialized", result |-> <<>>]]
       /\ last' = Call("serialize", "ReservoirSampleSerialize", p, 0, FALSE)
  /\ UNCHANGED <<agg, desc, hist, cnt>>

ReservoirSampleMergeStep(p, q) ==
  /\ agg = "reservoir"
  /\ out[q].phase = "serialized"
  /\ Merge("ReservoirSampleMerge", p, q, ReservoirSampleMerge(st[q], st[p]), ctx)

ReservoirSampleFinalizeStep(p) ==
  /\ agg = "reservoir"
  /\ LET r == ReservoirSampleFinalize(ctx, st[p])
     IN  Finalize("ReservoirSampleFinalize", p, r.result, r.ctx)

HistogramFinalizeStep(p) ==
  /\ agg = "reservoir"
  /\ LET r == HistogramFinalize(ctx, st[p])
     IN  Finalize("HistogramFinalize", p, r.result, r.ctx)

AppxMedianFinalizeStep(p) ==
  /\ agg = "reservoir"
  /\ LET r == AppxMedianFinalize(ctx, st[p])
     IN  Finalize("AppxMedianFinalize", p, r.result, r.ctx)

(***************************************************************************)
(* Variance and standard deviation.                                        *)
(***************************************************************************)
KnuthVarUpdateStep(p) ==
  /\ agg = "knuth_var"
  /\ \E src \in IntInputs :
       Update("KnuthVarUpdate", p, src, src.is_null, src, KnuthVarUpdate(src, st[p]), ctx)

KnuthVarMergeStep(p, q) ==
  /\ agg = "knuth_var"
  /\ Open(q)
  /\ Merge("KnuthVarMerge", p, q, KnuthVarMerge(st[q], st[p]), ctx)

KnuthVarFinalizeStep(p) ==
  /\ agg = "knuth_var"
  /\ LET r == KnuthVarFinalize(ctx, st[p])
     IN  Finalize("KnuthVarFinalize", p, r.result, r.ctx)

KnuthVarPopFinalizeStep(p) ==
  /\ agg = "knuth_var"
  /\ LET r == KnuthVarPopFinalize(ctx, st[p])
     IN  Finalize("KnuthVarPopFinalize", p, r.result, r.ctx)

KnuthStddevFinalizeStep(p) ==
  /\ agg = "knuth_var"
  /\ LET r == KnuthStddevFinalize(ctx, st[p])
     IN  Finalize("KnuthStddevFinalize", p, r.result, r.ctx)

KnuthStddevPopFinalizeStep(p) ==
  /\ agg = "knuth_var"
  /\ LET r == KnuthStddevPopFinalize(ctx, st[p])
     IN  Finalize("KnuthStddevPopFinalize", p, r.result, r.ctx)

(***************************************************************************)
(* Rank and dense rank.  An analytic function: update per row, get-value   *)
(* per group of peers.  hist keeps the calls made on a state: an update,   *)
(* or a get-value with the value it returned.                              *)
(***************************************************************************)
RankCall(call, result) == [call |-> call, result |-> result]

\* The get-value calls of a call history.
GetValueCalls(calls) == {i \in 1..Len(calls) : calls[i].call = "get_value"}

\* The get-value calls made so far, over all states.
GetValuesMade ==
  LET p1 == CHOOSE p \in Parts : TRUE
      p2 == CHOOSE p \in Parts : p # p1
  IN  Cardinality(GetValueCalls(hist[p1])) + Cardinality(GetValueCalls(hist[p2]))

RankUpdateStep(p) ==
  /\ agg = "rank"
  /\ Open(p)
  /\ AllOpen
  /\ cnt.rows < MaxRankRows
  /\ st' = [st EXCEPT ![p] = RankUpdate(st[p])]
  /\ hist' = [hist EXCEPT ![p] = Append(@, RankCall("update", NullVal))]
  /\ cnt' = [cnt EXCEPT !.rows = @ + 1]
  /\ last' = Call("update", "RankUpdate", p, 0, FALSE)
  /\ UNCHANGED <<agg, desc, ctx, out>>

DenseRankUpdateStep(p) ==
  /\ agg = "dense_rank"
  /\ Open(p)
  /\ AllOpen
  /\ cnt.rows < MaxRankRows
  /\ st' = [st EXCEPT ![p] = DenseRankUpdate(st[p])]
  /\ hist' = [hist EXCEPT ![p] = Append(@, RankCall("update", NullVal))]
  /\ cnt' = [cnt EXCEPT !.rows = @ + 1]
  /\ last' = Call("update", "DenseRankUpdate", p, 0, FALSE)
  /\ UNCHANGED <<agg, desc, ctx, out>>

\* The caller makes the call once a group of peers is complete: count > 0.
RankGetValueStep(p) ==
  /\ agg = "rank"
  /\ Open(p)
  /\ AllOpen
  /\ st[p].buf.count > 0
  /\ LET r == RankGetValue(st[p])
     IN  /\ st' = [st EXCEPT ![p] = r.dst]
         /\ hist' = [hist EXCEPT ![p] = Append(@, RankCall("get_value", r.result))]
  /\ last' = Call("get_value", "RankGetValue", p, 0, FALSE)
  /\ UNCHANGED <<agg, desc, ctx, out, cnt>>

DenseRankGetValueStep(p) ==
  /\ agg = "dense_rank"
  /\ Open(p)
  /\ AllOpen
  /\ GetValuesMade < MaxRows
  /\ LET r == DenseRankGetValue(st[p])
     IN  /\ st' = [st EXCEPT ![p] = r.dst]
         /\ hist' = [hist EXCEPT ![p] = Append(@, RankCall("get_value", r.result))]
  /\ last' = Call("get_value", "DenseRankGetValue", p, 0, FALSE)
  /\ UNCHANGED <<agg, desc, ctx, out, cnt>>

RankFinalizeStep(p) ==
  /\ agg \in {"rank", "dense_rank"}
  /\ LET r == RankFinalize(ctx, st[p])
     IN  Finalize("RankFinalize", p, r.result, r.ctx)

(***************************************************************************)
(* The specification.                                                      *)
(***************************************************************************)
\* Count, Sum, Min and Max over integers, decimals, strings and timestamps.
SimpleNext ==
  \E p \in Parts :
    \/ CountUpdateStep(p) \/ CountStarUpdateStep(p)
    \/ SumStep(p) \/ SumUpdateStep(p)
    \/ MinStep(p) \/ MaxStep(p)
    \/ MinStringStep(p) \/ MaxStringStep(p)
    \/ MinDecimalStep(p) \/ MaxDecimalStep(p)
    \/ MinTimestampStep(p) \/ MaxTimestampStep(p)
    \/ StringValFinalizeStep(p)
    \/ \E q \in Parts :
         \/ CountMergeStep(p, q) \/ SumMergeIntStep(p, q) \/ SumMergeStep(p, q)
         \/ MinMergeStep(p, q) \/ MaxMergeStep(p, q)
         \/ MinStringMergeStep(p, q) \/ MaxStringMergeStep(p, q)
         \/ MinDecimalMergeStep(p, q) \/ MaxDecimalMergeStep(p, q)
         \/ MinTimestampMergeStep(p, q) \/ MaxTimestampMergeStep(p, q)

\* Min and Max over strings.
StringMinMaxNext ==
  \E p \in Parts :
    \/ MinStringStep(p) \/ MaxStringStep(p)
    \/ StringValFinalizeStep(p)
    \/ \E q \in Parts : MinStringMergeStep(p, q) \/ MaxStringMergeStep(p, q)

AvgNext ==
  \E p \in Parts :
    \/ AvgUpdateStep(p) \/ TimestampAvgUpdateStep(p)
    \/ AvgFinalizeStep(p) \/ TimestampAvgFinalizeStep(p)
    \/ \E q \in Parts : AvgMergeStep(p, q)

DecimalAvgNext ==
  \E p \in Parts :
    \/ DecimalAvgUpdateStep(p) \/ DecimalAvgFinalizeStep(p)
    \/ \E q \in Parts : DecimalAvgMergeStep(p, q)

StringConcatNext ==
  \E p \in Parts :
    \/ StringConcatUpdateStep(p) \/ StringConcatFinalizeStep(p)
    \/ \E q \in Parts : StringConcatMergeStep(p, q)

DistinctEstimateNext ==
  \E p \in Parts :
    \/ PcUpdateStep(p) \/ PcsaUpdateStep(p)
    \/ PcFinalizeStep(p) \/ PcsaFinalizeStep(p)
    \/ HllUpdateStep(p) \/ HllFinalizeStep(p)
    \/ \E q \in Parts : PcMergeStep(p, q) \/ HllMergeStep(p, q)

ReservoirSampleNext ==
  \E p \in Parts :
    \/ ReservoirSampleUpdateStep(p) \/ ReservoirSampleSerializeStep(p)
    \/ ReservoirSampleFinalizeStep(p) \/ HistogramFinalizeStep(p)
    \/ AppxMedianFinalizeStep(p)
    \/ \E q \in Parts : ReservoirSampleMergeStep(p, q)

KnuthVarNext ==
  \E p \in Parts :
    \/ KnuthVarUpdateStep(p)
    \/ KnuthVarFinalizeStep(p) \/ KnuthVarPopFinalizeStep(p)
    \/ KnuthStddevFinalizeStep(p) \/ KnuthStddevPopFinalizeStep(p)
    \/ \E q \in Parts : KnuthVarMergeStep(p, q)

RankNext ==
  \E p \in Parts :
    \/ RankUpdateStep(p) \/ DenseRankUpdateStep(p)
    \/ RankGetValueStep(p) \/ DenseRankGetValueStep(p)
    \/ RankFinalizeStep(p)

Next ==
  \/ SimpleNext
  \/ AvgNext
  \/ DecimalAvgNext
  \/ StringConcatNext
  \/ DistinctEstimateNext
  \/ ReservoirSampleNext
  \/ KnuthVarNext
  \/ RankNext

\* Any registered aggregate function.
Spec == Init /\ [][Next]_vars

\* One family of aggregate functions at a time.
StringMinMaxStart == Init /\ agg \in {"min_string", "max_string"}

StringMinMaxSpec == StringMinMaxStart /\ [][StringMinMaxNext]_vars

DecimalAvgStart == Init /\ agg = "decimal_avg"

DecimalAvgSpec == DecimalAvgStart /\ [][DecimalAvgNext]_vars

StringConcatStart == Init /\ agg = "string_concat"

StringConcatSpec == StringConcatStart /\ [][StringConcatNext]_vars

DistinctEstimateStart == Init /\ agg \in {"pc", "pcsa", "hll"}

DistinctEstimateSpec == DistinctEstimateStart /\ [][DistinctEstimateNext]_vars

\* PC after many rows.  FillInputs are 32 inputs whose hashes for seed 0 are
\* the powers of two: the k-th sets bit (k - 1 + i) mod 32 in row i.
FillInputs == [k \in 1..PC_BITMAP_LENGTH |-> Val({k - 1})]

\* The state after PcUpdate has folded inputs[1 .. n] into dst.
RECURSIVE PcFold(_, _, _)
PcFold(inputs, n, dst) ==
  IF n = 0 THEN dst ELSE PcUpdate(inputs[n], PcFold(inputs, n - 1, dst))

\* How many of FillInputs the first partial state has taken at the start.
FillCounts == {PC_BITMAP_LENGTH - 2, PC_BITMAP_LENGTH - 1}

\* The first partial state has folded a prefix of FillInputs, the others are
\* fresh; hist holds what was folded in, and cnt counts the calls from here on.
PcFilledStart ==
  /\ agg = "pc"
  /\ desc \in Descs(agg)
  /\ \E n \in FillCounts :
       /\ st = [p \in Parts |->
                  LET fresh == InitUpTo(agg, Cardinality(Parts)).dst[p]
                  IN  IF p = 1 THEN PcFold(FillInputs, n, fresh) ELSE fresh]
       /\ hist = [p \in Parts |-> IF p = 1 THEN SubSeq(FillInputs, 1, n) ELSE <<>>]
  /\ ctx = InitUpTo(agg, Cardinality(Parts)).ctx
  /\ out = [p \in Parts |-> [phase |-> "open", result |-> <<>>]]
  /\ cnt = [rows |-> 0, merges |-> 0]
  /\ last = NoCall

PcFilledNext ==
  \E p \in Parts :
    \/ PcUpdateStep(p)
    \/ \E q \in Parts : PcMergeStep(p, q)

PcFilledSpec == PcFilledStart /\ [][PcFilledNext]_vars

\* HLL after the rows [1, 1, 2, 3, 1, 2].  The hashes of 1, 2 and 3 are 1024,
\* 2049 and 3074: registers 0, 1 and 2.
HllExampleInputs ==
  <<Val({10}), Val({10}), Val({0, 11}), Val({1, 10, 11}), Val({10}), Val({0, 11})>>

\* The states HllUpdate may leave after it has folded inputs[1 .. n] into dst.
RECURSIVE HllFold(_, _, _)
HllFold(inputs, n, dst) ==
  IF n = 0 THEN {dst}
  ELSE UNION {HllUpdate(inputs[n], d) : d \in HllFold(inputs, n - 1, dst)}

\* How many of HllExampleInputs the first partial state has taken at the start.
HllFillCounts == {3, Len(HllExampleInputs)}

HllFilledStart ==
  /\ agg = "hll"
  /\ desc \in Descs(agg)
  /\ \E n \in HllFillCounts :
       /\ st \in {[p \in Parts |->
                     IF p = 1 THEN d ELSE InitUpTo(agg, Cardinality(Parts)).dst[p]] :
                   d \in HllFold(HllExampleInputs, n,
                                 InitUpTo(agg, Cardinality(Parts)).dst[1])}
       /\ hist = [p \in Parts |-> IF p = 1 THEN SubSeq(HllExampleInputs, 1, n) ELSE <<>>]
  /\ ctx = InitUpTo(agg, Cardinality(Parts)).ctx
  /\ out = [p \in Parts |-> [phase |-> "open", result |-> <<>>]]
  /\ cnt = [rows |-> 0, merges |-> 0]
  /\ last = NoCall

\* Updates and the finalize call, no merge.
HllFilledNext ==
  \E p \in Parts : HllUpdateStep(p) \/ HllFinalizeStep(p)

HllFilledSpec == HllFilledStart /\ [][HllFilledNext]_vars

ReservoirSampleStart == Init /\ agg = "reservoir"

ReservoirSampleSpec == ReservoirSampleStart /\ [][ReservoirSampleNext]_vars

KnuthVarStart == Init /\ agg = "knuth_var"

KnuthVarSpec == KnuthVarStart /\ [][KnuthVarNext]_vars

RankStart == Init /\ agg \in {"rank", "dense_rank"}

RankSpec == RankStart /\ [][RankNext]_vars

(***************************************************************************)
(* Properties.                                                             *)
(***************************************************************************)
\* A state without the address of its buffer (the integer and decimal
\* accumulators have none).
StateValue(s) == IF "ptr" \in DOMAIN s THEN Content(s) ELSE s

\* The value a partial state of aggregate a has after init.
FreshValue(a) == StateValue(InitFn(a, NewCtx).dst)

\* The small hash of the inputs: h / NUM_PC_BITMAPS and h >> HLL_PRECISION are 0.
SmallHash == Val({0, 2})

\* C1: for PC, PCSA and HLL, two partial states that have folded in the same
\* set of distinct non-null values, in any order, with any repetition and
\* through any merges, hold bit-identical states.
C1_StateDependsOnValueSet ==
  \A p, q \in Parts :
    Range(hist[p]) = Range(hist[q]) => Content(st[p]) = Content(st[q])

\* The case of C1 the code decides without undefined behaviour: no input's
\* hash is below the number of rows (PCSA) or registers (HLL).
C1_HoldsWithoutSmallHash ==
  \A p, q \in Parts :
    (/\ Range(hist[p]) = Range(hist[q])
     /\ (agg # "pc" => SmallHash \notin Range(hist[p])))
    => Content(st[p]) = Content(st[q])

\* The merge function of the aggregates whose merge takes no context.
MergeFn(a, src, dst) ==
  CASE a = "count" -> CountMerge(src, dst)
    [] a = "sum" -> Sum(src, dst)
    [] a \in {"pc", "pcsa"} -> PcMerge(src, dst)
    [] a = "hll" -> HllMerge(src, dst)

CommutativeAggs == {"count", "sum", "pc", "pcsa", "hll"}

\* C2: for Count, integer Sum, PC/PCSA and HLL, the state a merge of b into a
\* leaves is the state the merge of a into b leaves.
C2_MergeCommutes ==
  (last.kind = "merge" /\ agg \in CommutativeAggs)
  => StateValue(st[last.part]) = StateValue(MergeFn(agg, last.pre, st[last.from]))

\* Two different states, neither of them fresh, have been merged.
C2_Witness ==
  /\ last.kind = "merge"
  /\ agg \in CommutativeAggs
  /\ StateValue(last.pre) # StateValue(st[last.from])
  /\ StateValue(last.pre) # FreshValue(agg)
  /\ StateValue(st[last.from]) # FreshValue(agg)

IdentityAggs == Aggs \ {"reservoir", "rank", "dense_rank"}

\* C3: for Count, Sum, Min, Max, Avg, DecimalAvg, StringConcat, PC/PCSA, HLL
\* and Knuth variance, merging a fresh state into s leaves s as it was, and
\* merging s into a fresh state leaves a state equal to s.
C3_MergeIdentity ==
  (last.kind = "merge" /\ agg \in IdentityAggs)
  => /\ StateValue(st[last.from]) = FreshValue(agg) => st[last.part] = last.pre
     /\ StateValue(last.pre) = FreshValue(agg)
          => StateValue(st[last.part]) = StateValue(st[last.from])

\* A state that is not fresh has been merged into a fresh one.
C3_Witness ==
  /\ last.kind = "merge"
  /\ agg \in IdentityAggs
  /\ StateValue(last.pre) = FreshValue(agg)
  /\ StateValue(st[last.from]) # FreshValue(agg)

\* C5: an update called with a null value leaves the state as it was, every
\* field of it (the reservoir's source_size and rng too), and allocates and
\* frees nothing.
C5_NullSkip ==
  (last.kind = "update" /\ last.is_null)
  => st[last.part] = last.pre /\ ctx = last.prectx

\* A null value has been offered to a state that holds non-null inputs.
C5_Witness ==
  /\ last.kind = "update"
  /\ last.is_null
  /\ hist[last.part] # <<>>

FreeingAggs == {"avg", "timestamp_avg", "decimal_avg", "string_concat", "pc", "pcsa",
                "hll", "reservoir", "rank", "dense_rank"}

\* C7: for Avg, TimestampAvg, DecimalAvg, StringConcat, PC, PCSA, HLL, the
\* reservoir finalizers and Rank, no call frees a buffer that is not live, and
\* a finalize call frees the buffer of its state and nothing else, on every
\* path.
C7_FinalizeFreesOnce ==
  agg \in FreeingAggs
  => /\ ctx.bad_free = 0
     /\ last.kind = "finalize"
          => /\ last.pre.ptr # NULL => last.pre.ptr \in last.prectx.live
             /\ ctx.live = last.prectx.live \ {last.pre.ptr}

\* DecimalAvgFinalize has returned null for a state with count > 0 (the
\* division overflowed).
C7_Witness ==
  /\ agg = "decimal_avg"
  /\ last.kind = "finalize"
  /\ last.pre.buf.count > 0
  /\ out[last.part].result.is_null

\* The occupied slots of a reservoir state.
Slots(state) == 0..(state.num_samples - 1)

\* The state merged into and the state merged in, after a merge into a fresh
\* ReservoirSampleInit state.
MergedIntoFresh ==
  /\ agg = "reservoir"
  /\ last.kind = "merge"
  /\ StateValue(last.pre) = FreshValue(agg)

C6_FinalizersFree ==
  (agg = "knuth_var" /\ last.kind = "finalize")
  => ctx.bad_free = 0 /\ last.pre.ptr \notin ctx.live

\* The three finalizers that call ctx->Free do free the buffer.
C6_OtherFinalizersFree ==
  (agg = "knuth_var" /\ last.kind = "finalize" /\ last.op # "KnuthVarFinalize")
  => ctx.bad_free = 0 /\ last.pre.ptr \notin ctx.live

\* The sub-field of the declared width of a decimal input.
FullValue(precision, x) ==
  IF GetByteSize(precision) = 4 THEN Val4(x)
  ELSE IF GetByteSize(precision) = 8 THEN Val8(x)
  ELSE Val16(x)

RECURSIVE SumOfInputs(_, _)
SumOfInputs(precision, rows) ==
  IF rows = <<>> THEN I128(0, 0)
  ELSE Add128(FullValue(precision, Head(rows).val16),
              SumOfInputs(precision, Tail(rows)))

\* C8: whatever the width of the input (4, 8 or 16 bytes), the sum of a
\* DecimalAvg state is the sum of the full values of the non-null inputs
\* folded in, and count is their number.
C8_SumOfFullValues ==
  agg = "decimal_avg"
  => \A p \in Parts :
       /\ st[p].buf.sum = SumOfInputs(desc.precision, hist[p])
       /\ st[p].buf.count = Len(hist[p])

\* The widths for which DecimalAvgUpdate reads the sub-field of that width.
C8_HoldsForWidths4And8 ==
  (agg = "decimal_avg" /\ GetByteSize(desc.precision) # 16)
  => \A p \in Parts :
       /\ st[p].buf.sum = SumOfInputs(desc.precision, hist[p])
       /\ st[p].buf.count = Len(hist[p])

\* The rows ("a", "-"), ("b", "-") and ("c", "+").
RowA == ConcatRow(InputString(<<97>>), InputString(<<45>>))

RowB == ConcatRow(InputString(<<98>>), InputString(<<45>>))

RowC == ConcatRow(InputString(<<99>>), InputString(<<43>>))

\* Partial state p has folded ["a", "b"] with "-", the other one ["c"] with "+",
\* the other one was merged into p, and p was finalized.
ConcatExample(p) ==
  /\ agg = "string_concat"
  /\ out[p].phase = "finalized"
  /\ cnt.rows = 3
  /\ cnt.merges = 1
  /\ hist[p] = <<RowA, RowB, RowC>>
  /\ \E q \in Parts \ {p} : hist[q] = <<RowC>>

\* What the rows append to a state: each row's separator (", " if it is null),
\* then its value.
RECURSIVE RowsPayload(_)
RowsPayload(rows) ==
  IF rows = <<>> THEN <<>>
  ELSE LET sep == IF Head(rows).separator.is_null THEN DEFAULT_STRING_CONCAT_DELIM
                  ELSE Head(rows).separator
       IN  sep.buf \o Head(rows).val.buf \o RowsPayload(Tail(rows))

\* C9 as stated: the example finalizes to "a-b-c".
C9_ExampleGivesFirstSeparator ==
  \A p \in Parts : ConcatExample(p) => out[p].result.buf = <<97, 45, 98, 45, 99>>

\* C9, amended: the example finalizes to "a-b+c"; in general a merge of a
\* state that is not null appends every row of the source with the row's own
\* separator, the first row's too, and a null destination takes the source's
\* bytes.
C9_MergeKeepsSourceSeparators ==
  /\ \A p \in Parts : ConcatExample(p) => out[p].result.buf = <<97, 45, 98, 43, 99>>
  /\ (agg = "string_concat" /\ last.kind = "merge" /\ ~st[last.from].is_null)
       => st[last.part].buf =
            IF last.pre.is_null THEN st[last.from].buf
            ELSE last.pre.buf \o RowsPayload(hist[last.from])

\* The example has run.
C9_Witness == \E p \in Parts : ConcatExample(p)

\* fold(X): the rows of X folded in by StringConcatUpdate from the null state.
RECURSIVE ConcatFold(_, _)
ConcatFold(rows, result) ==
  IF rows = <<>> THEN result
  ELSE ConcatFold(Tail(rows),
         StringConcatUpdate(NewCtx, Head(rows).val, Head(rows).separator, result).dst)

\* C10: finalizing a StringConcat state returns the bytes that finalizing the
\* fold of its rows returns, where the rows of a state merged into another
\* follow the rows of that state; a state whose rows have no value is null.
C10_PartitionInvariance ==
  agg = "string_concat"
  => \A p \in Parts :
       LET folded == StringConcatFinalize(NewCtx, ConcatFold(hist[p], NullString)).result
       IN  IF Open(p)
           THEN StateValue(StringConcatFinalize(ctx, st[p]).result) = StateValue(folded)
           ELSE StateValue(out[p].result) = StateValue(folded)

\* A state with rows (X2) has been merged into a null state (X1 without a
\* value).
C10_Witness ==
  /\ agg = "string_concat"
  /\ last.kind = "merge"
  /\ last.pre.is_null
  /\ ~st[last.from].is_null

\* v1 s2 v2 ... sn vn for rows (v1, s1) .. (vn, sn), none with a null value.
JoinRows(rows) ==
  IF rows = <<>> THEN <<>> ELSE Head(rows).val.buf \o RowsPayload(Tail(rows))

\* The rows ("a", null), ("b", null), ("c", null) and a row without a value.
DefaultSeparatorRows ==
  <<ConcatRow(InputString(<<97>>), NullString),
    ConcatRow(NullString, InputString(<<45>>)),
    ConcatRow(InputString(<<98>>), NullString),
    ConcatRow(InputString(<<99>>), NullString)>>

\* C11: a StringConcat state that rows were folded into from the null state,
\* without a merge, finalizes to null if no row had a value and otherwise to
\* v1 s2 v2 ... sn vn over the rows with a value, a null separator standing
\* for ", "; and the fold of ["a", "b", "c"] with null separators finalizes to
\* "a, b, c".
C11_FoldResult ==
  /\ StringConcatFinalize(NewCtx, ConcatFold(DefaultSeparatorRows, NullString)).result.buf
       = <<97, 44, 32, 98, 44, 32, 99>>
  /\ (agg = "string_concat" /\ cnt.merges = 0)
       => \A p \in Parts :
            out[p].phase = "finalized"
            => IF hist[p] = <<>> THEN out[p].result.is_null
               ELSE /\ ~out[p].result.is_null
                    /\ out[p].result.buf = JoinRows(hist[p])
                    /\ out[p].result.len = Len(JoinRows(hist[p]))

\* Three rows, the first and a later one with a null separator, have been
\* folded into one state and the state finalized.
C11_Witness ==
  /\ agg = "string_concat"
  /\ cnt.merges = 0
  /\ \E p \in Parts :
       /\ out[p].phase = "finalized"
       /\ Len(hist[p]) = 3
       /\ hist[p][1].separator.is_null
       /\ hist[p][3].separator.is_null

\* The update calls among the first n calls of a call history.
UpdatesAmong(calls, n) ==
  Cardinality({k \in 1..n : calls[k].call = "update"})

\* The get-value call before call i (0 if there is none).
PrevGetValue(calls, i) ==
  LET before == {k \in GetValueCalls(calls) : k < i}
  IN  IF before = {} THEN 0 ELSE CHOOSE k \in before : \A m \in before : m <= k

\* The values the get-value calls of a call history returned, in order.
ReturnedValues(calls) ==
  SelectSeq([i \in 1..Len(calls) |-> calls[i].result], LAMBDA v : ~v.is_null)

\* Groups of 2, 3 and 1 peers: the calls made for the input [10,10,20,20,20,30].
TieGroupCalls == <<"update", "update", "get_value", "update", "update", "update",
                   "get_value", "update", "get_value">>

RanExample(p) ==
  /\ Len(hist[p]) = Len(TieGroupCalls)
  /\ \A i \in 1..Len(TieGroupCalls) : hist[p][i].call = TieGroupCalls[i]

\* C12: under the window protocol (RankUpdate once per row of a tie group,
\* then one RankGetValue), the j-th RankGetValue returns 1 plus the sizes of
\* the tie groups before the j-th, that is 1 plus the number of rows seen
\* before the previous RankGetValue; groups of 2, 3 and 1 rows give 1, 3, 6.
C12_RankSkipsTies ==
  agg = "rank"
  => \A p \in Parts :
       /\ \A i \in GetValueCalls(hist[p]) :
            hist[p][i].result =
              Val(1 + UpdatesAmong(hist[p], PrevGetValue(hist[p], i)))
       /\ RanExample(p) => ReturnedValues(hist[p]) = <<Val(1), Val(3), Val(6)>>

\* The example has run on one state.
C12_Witness == agg = "rank" /\ \E p \in Parts : RanExample(p)

\* C13: from RankInit the j-th DenseRankGetValue returns j, however many
\* DenseRankUpdate calls come between; DenseRankUpdate leaves the state and
\* the context as they were; groups of 2, 3 and 1 rows give 1, 2, 3.
C13_DenseRankCountsGroups ==
  agg = "dense_rank"
  => /\ \A p \in Parts :
          /\ \A i \in GetValueCalls(hist[p]) :
               hist[p][i].result =
                 Val(Cardinality({k \in GetValueCalls(hist[p]) : k <= i}))
          /\ RanExample(p) => ReturnedValues(hist[p]) = <<Val(1), Val(2), Val(3)>>
     /\ last.op = "DenseRankUpdate" => st[last.part] = last.pre /\ ctx = last.prectx

\* The example has run on one state.
C13_Witness == agg = "dense_rank" /\ \E p \in Parts : RanExample(p)

\* C14: after any sequence of CountUpdate, CountStarUpdate and CountMerge
\* calls from the zero state, a count state is never null and holds the number
\* of non-null values CountUpdate saw plus the number of CountStarUpdate
\* calls, over the state and the states merged into it.
C14_CountIsRowsSeen ==
  agg = "count"
  => \A p \in Parts : ~st[p].is_null /\ st[p].val = Len(hist[p])

\* A state that counted two rows has been merged into one that counted a row.
C14_Witness ==
  /\ agg = "count"
  /\ last.kind = "merge"
  /\ last.pre.val > 0
  /\ st[last.from].val > 1

\* The sum of int64_t values, modulo 2^64.
RECURSIVE SumMod64(_)
SumMod64(rows) ==
  IF rows = <<>> THEN Int64(0) ELSE Add64(Head(rows).val, SumMod64(Tail(rows)))

RECURSIVE SumOfDecimals(_)
SumOfDecimals(rows) ==
  IF rows = <<>> THEN I128(0, 0) ELSE Add128(Head(rows).val16, SumOfDecimals(Tail(rows)))

\* C15: after any sequence of Sum updates and merges from the null state the
\* accumulator is null iff no non-null value was folded in, and otherwise is
\* the sum of the non-null values folded in, modulo 2^64 for the 64-bit
\* accumulator (the largest int64_t plus 2 is the smallest plus 1), however
\* the values were split over partial states.
C15_SumOfValuesSeen ==
  /\ agg = "sum"
       => \A p \in Parts :
            /\ st[p].is_null <=> hist[p] = <<>>
            /\ ~st[p].is_null => st[p].val = SumMod64(hist[p])
            /\ (Len(hist[p]) = 2 /\ Range(hist[p]) = {Val(INT64_MAX), Val(Int64(2))})
                 => st[p].val = Add64(INT64_MIN, Int64(1))
  /\ agg = "sum_decimal"
       => \A p \in Parts :
            /\ st[p].is_null <=> hist[p] = <<>>
            /\ ~st[p].is_null => st[p].val16 = SumOfDecimals(hist[p])

\* A partial sum has been merged into another, and the total passed the
\* largest int64_t.
C15_Witness ==
  /\ agg = "sum"
  /\ last.kind = "merge"
  /\ ~last.pre.is_null
  /\ ~st[last.from].is_null
  /\ hist[last.part] = <<Val(INT64_MAX), Val(Int64(2)), Val(Int64(-1))>>

\* Bytewise lexicographic order: a is a proper prefix of b, or the first byte
\* they differ in is smaller in a.
LexLess(a, b) ==
  \E k \in 1..Len(b) :
    /\ \A i \in 1..(k - 1) : i <= Len(a) /\ a[i] = b[i]
    /\ k > Len(a) \/ a[k] < b[k]

\* Whether x comes before y in the total order of the values of aggregate a.
Before(a, x, y) ==
  CASE a \in {"min", "max"} -> x.val < y.val
    [] a \in {"min_string", "max_string"} -> LexLess(x.buf, y.buf)
    [] a \in {"min_timestamp", "max_timestamp"} ->
         x.date < y.date \/ (x.date = y.date /\ x.time_of_day < y.time_of_day)
    [] a \in {"min_decimal", "max_decimal"} ->
         Less128(FullValue(desc.precision, x.val16), FullValue(desc.precision, y.val16))

MinAggs == {"min", "min_string", "min_timestamp", "min_decimal"}

MaxAggs == {"max", "max_string", "max_timestamp", "max_decimal"}

\* The value of an accumulator or of an input, without where its bytes live.
Held(a, x) == IF a \in {"min_string", "max_string"} THEN [buf |-> x.buf, len |-> x.len] ELSE x

\* C16: after any sequence of Min (Max) updates and merges from the null
\* state the accumulator is null iff no non-null value was folded in, and
\* otherwise is one of the values folded in, with none of them before (after)
\* it in the type's order: numeric, bytewise lexicographic for strings, date
\* then time of day for timestamps, the sub-field of the declared precision
\* for decimals.
C16_MinMaxOfValuesSeen ==
  agg \in MinAggs \cup MaxAggs
  => \A p \in Parts :
       /\ st[p].is_null <=> hist[p] = <<>>
       /\ ~st[p].is_null
            => /\ \E r \in Range(hist[p]) : Held(agg, r) = Held(agg, st[p])
               /\ \A r \in Range(hist[p]) :
                    IF agg \in MinAggs THEN ~Before(agg, r, st[p])
                    ELSE ~Before(agg, st[p], r)

\* A merge has replaced the string "ab" a Max state held by "b" (longer is
\* not greater).
C16_Witness ==
  /\ agg = "max_string"
  /\ last.kind = "merge"
  /\ ~last.pre.is_null
  /\ last.pre.buf = <<97, 98>>
  /\ st[last.part].buf = <<98>>

\* The values of rows, added up.
RECURSIVE SumOfValues(_)
SumOfValues(rows) ==
  IF rows = <<>> THEN 0 ELSE Head(rows).val + SumOfValues(Tail(rows))

\* The AvgInit state after AvgUpdate with each of the values, in order.
RECURSIVE AvgFold(_, _)
AvgFold(values, dst) ==
  IF values = <<>> THEN dst ELSE AvgFold(Tail(values), AvgUpdate(Val(Head(values)), dst))

AvgOf(values) == AvgFold(values, AvgInit(NewCtx).dst)

\* C17: after any sequence of AvgUpdate and AvgMerge calls from AvgInit, sum
\* is the sum and count the number of the non-null values folded in, however
\* they were split over partial states; AvgGetValue and AvgFinalize return
\* null iff count is 0 and sum / count otherwise; [1, 2, 3, 4] gives 5/2, and
\* so does avg([1, 2]) merged with avg([3, 4]).
C17_AvgOfValuesSeen ==
  /\ AvgGetValue(AvgOf(<<1, 2, 3, 4>>)) = Val(<<5, 2>>)
  /\ AvgGetValue(AvgMerge(AvgOf(<<3, 4>>), AvgOf(<<1, 2>>))) = Val(<<5, 2>>)
  /\ agg = "avg"
       => \A p \in Parts :
            /\ st[p].buf.sum = SumOfValues(hist[p])
            /\ st[p].buf.count = Len(hist[p])
            /\ AvgGetValue(st[p]).is_null <=> st[p].buf.count = 0
            /\ out[p].phase = "finalized"
                 => LET r == out[p].result
                    IN  /\ r = AvgGetValue(st[p])
                        /\ ~r.is_null
                             => /\ r.val[2] > 0
                                /\ r.val[1] * Len(hist[p]) = SumOfValues(hist[p]) * r.val[2]

\* Two partial averages have been merged and the result finalized to a value
\* that is not an integer.
C17_Witness ==
  /\ agg = "avg"
  /\ last.kind = "finalize"
  /\ cnt.merges = 1
  /\ Len(hist[last.part]) = 2
  /\ \E q \in Parts : q # last.part /\ Len(hist[q]) = 1
  /\ ~out[last.part].result.is_null
  /\ out[last.part].result.val[2] # 1

\* C18: DecimalAvgFinalize on a state with count # 0 whose division reports
\* overflow adds exactly one warning and returns null; when no overflow is
\* reported, count = 0 included, it adds none, and no other call adds one.
C18_OverflowWarnsOnce ==
  agg = "decimal_avg"
  => IF last.kind = "finalize"
     THEN IF last.pre.buf.count # 0 /\ last.divided.overflow
          THEN /\ ctx.warnings = last.prectx.warnings + 1
               /\ out[last.part].result.is_null
          ELSE ctx.warnings = last.prectx.warnings
     ELSE ctx.warnings = 0

\* The division of a sum over a count that is not 0 has reported overflow.
C18_Witness ==
  /\ agg = "decimal_avg"
  /\ last.kind = "finalize"
  /\ last.pre.buf.count = 2
  /\ last.divided.overflow

\* The squares of the values of rows, added up.
RECURSIVE SumOfSquares(_)
SumOfSquares(rows) ==
  IF rows = <<>> THEN 0
  ELSE Head(rows).val * Head(rows).val + SumOfSquares(Tail(rows))

\* The arithmetic mean of the values of rows (0 if there is none).
MeanOf(rows) ==
  IF rows = <<>> THEN FromInt(0) ELSE Frac(SumOfValues(rows), Len(rows))

\* The sum of the squared deviations of the values from their mean:
\* sum(x^2) - sum(x)^2 / n.
SquaredDeviations(rows) ==
  IF rows = <<>> THEN FromInt(0)
  ELSE Frac(Len(rows) * SumOfSquares(rows) - SumOfValues(rows) * SumOfValues(rows),
            Len(rows))

\* The KnuthVarInit state after KnuthVarUpdate with each of the values, in order.
RECURSIVE KnuthFold(_, _)
KnuthFold(values, dst) ==
  IF values = <<>> THEN dst
  ELSE KnuthFold(Tail(values), KnuthVarUpdate(Val(Head(values)), dst))

KnuthOf(values) == KnuthFold(values, KnuthVarInit(NewCtx).dst)

\* C19: in exact arithmetic, after any sequence of KnuthVarUpdate and
\* KnuthVarMerge calls from KnuthVarInit, count is the number of non-null
\* values folded in, mean their arithmetic mean and m2 the sum of their
\* squared deviations from it, however they were split and merged;
\* [2, 4, 4, 4, 5, 5, 7, 9] gives population variance 4 and sample variance
\* 32/7, folded into one state or into two that are merged.
C19_KnuthMoments ==
  /\ LET whole  == KnuthOf(<<2, 4, 4, 4, 5, 5, 7, 9>>)
         merged == KnuthVarMerge(KnuthOf(<<5, 5, 7, 9>>), KnuthOf(<<2, 4, 4, 4>>))
     IN  /\ ComputeKnuthVariance(whole.buf, TRUE) = <<4, 1>>
         /\ ComputeKnuthVariance(whole.buf, FALSE) = <<32, 7>>
         /\ merged.buf = whole.buf
  /\ agg = "knuth_var"
       => \A p \in Parts :
            /\ st[p].buf.count = Len(hist[p])
            /\ st[p].buf.mean = MeanOf(hist[p])
            /\ st[p].buf.m2 = SquaredDeviations(hist[p])

\* Two states that hold values, with different means, have been merged.
C19_Witness ==
  /\ agg = "knuth_var"
  /\ last.kind = "merge"
  /\ last.pre.buf.count = 2
  /\ st[last.from].buf.count = 1
  /\ last.pre.buf.mean # st[last.from].buf.mean
  /\ last.pre.buf.m2 # FromInt(0)

PopFinalizers == {"KnuthVarPopFinalize", "KnuthStddevPopFinalize"}

StddevFinalizers == {"KnuthStddevFinalize", "KnuthStddevPopFinalize"}

\* C20: each of the four variance / stddev finalizers returns null for count
\* 0 and 0 for count 1; for count >= 2 the population variants return
\* m2 / count and the sample variants m2 / (count - 1), the stddev variants
\* the square root of it.  KnuthVarFinalize returns the double, the other
\* three its text.
C20_FinalizerValues ==
  (agg = "knuth_var" /\ last.kind = "finalize")
  => LET s == last.pre.buf
         r == out[last.part].result
         divisor == IF last.op \in PopFinalizers THEN s.count ELSE s.count - 1
     IN  /\ s.count = 0 => r.is_null
         /\ s.count >= 1
              => /\ ~r.is_null
                 /\ r.sqrt <=> last.op \in StddevFinalizers
                 /\ r.text <=> last.op # "KnuthVarFinalize"
         /\ s.count = 1 => r.val = FromInt(0)
         /\ s.count >= 2
              => /\ r.val[2] > 0
                 /\ r.val[1] * s.m2[2] * divisor = s.m2[1] * r.val[2]

\* The sample stddev finalizer has run on a state that holds one value
\* (count - 1 is 0).
C20_Witness ==
  /\ agg = "knuth_var"
  /\ last.kind = "finalize"
  /\ last.op = "KnuthStddevFinalize"
  /\ last.pre.buf.count = 1

(***************************************************************************)
(* Empty estimators.                                                       *)
(***************************************************************************)
Estimators == {"pc", "pcsa", "hll"}

\* C21: for PC, PCSA and HLL, finalizing a state that has received no
\* non-null input (after init, after null updates only, or after merging only
\* such states) returns the one-character string "0" (the byte 48).
C21_EmptyEstimateIsZero ==
  (agg \in Estimators /\ last.kind = "finalize" /\ hist[last.part] = <<>>)
    => out[last.part].result = StringVal(NULL, 1, <<48>>)

\* A state without input was merged into the other one, neither has a
\* non-null input, and one of them is finalized.
C21_Witness ==
  /\ agg \in Estimators
  /\ last.kind = "finalize"
  /\ \A p \in Parts : hist[p] = <<>>
  /\ cnt.merges > 0
  /\ out[last.part].result.buf = <<48>>

(***************************************************************************)
(* Reservoir sampling: merge.                                              *)
(***************************************************************************)
\* The occupied slots are a min-heap on the key: no slot's key is below its
\* parent's.
IsKeyMinHeap(state) ==
  \A i \in 1..(state.num_samples - 1) :
    ~FLess(state.samples[i].key, state.samples[(i - 1) \div 2].key)

\* How often sample s is held in the occupied slots.
CountSample(state, s) == Cardinality({i \in Slots(state) : state.samples[i] = s})

SamplesOf(state) == {state.samples[i] : i \in Slots(state)}

\* res holds min(NUM_SAMPLES, dst + src) samples of the combined multiset, no
\* sample left out has a key above the key of one kept, and the source sizes
\* are added.
MergeTakesLargest(src, dst, res) ==
  /\ res.num_samples = MinOf(NUM_SAMPLES, dst.num_samples + src.num_samples)
  /\ \A s \in SamplesOf(src) \cup SamplesOf(dst) \cup SamplesOf(res) :
       /\ CountSample(res, s) <= CountSample(src, s) + CountSample(dst, s)
       /\ CountSample(res, s) < CountSample(src, s) + CountSample(dst, s)
            => \A kept \in SamplesOf(res) : ~FLess(kept.key, s.key)
  /\ res.source_size = dst.source_size + src.source_size

\* Keys of serialized samples.
ExampleKeys == {Frac(1, 3), Frac(1, 2), Frac(1, 1)}

\* States with n samples whose values are base, base + 1, ... and whose keys
\* are drawn from ExampleKeys.
KeyedStates(base) ==
  {[samples |-> [i \in 0..(NUM_SAMPLES - 1) |->
                   IF i < n THEN [val |-> base + i, key |-> keys[i]] ELSE EmptySample],
    num_samples |-> n, source_size |-> n + base, rng |-> 0] :
     n \in {0, NUM_SAMPLES - 1, NUM_SAMPLES}, keys \in [0..(NUM_SAMPLES - 1) -> ExampleKeys]}

\* Merges of keyed sources into keyed heaps, by ReservoirSampleMerge.
KeyedMergesTakeLargest ==
  \A dst \in {h \in KeyedStates(0) : IsKeyMinHeap(h)} :
    \A src \in KeyedStates(10) :
      LET dst_val == StringVal(1, SizeofReservoirSampleState, dst)
          src_val == StringVal(NULL, SizeofReservoirSampleState, src)
      IN  MergeTakesLargest(src, dst, ReservoirSampleMerge(src_val, dst_val).buf)

UpdatesOnly(p) == agg = "reservoir" /\ cnt.merges = 0 /\ Open(p)

\* The text of a list of values: their decimal forms with ", " between them.
RECURSIVE ListText(_)
ListText(vals) ==
  IF vals = <<>> THEN <<>>
  ELSE IF Len(vals) = 1 THEN PrintSample(ReservoirSample(vals[1]))
  ELSE PrintSample(ReservoirSample(vals[1])) \o <<44, 32>> \o ListText(Tail(vals))

\* The slots whose content an update changed.
SlotsChanged(pre, post) ==
  {i \in 0..(NUM_SAMPLES - 1) : pre.samples[i] # post.samples[i]}

\* C23: in a state reached from ReservoirSampleInit by updates only,
\* source_size is the number of non-null inputs and num_samples is
\* min(source_size, NUM_SAMPLES); while source_size <= NUM_SAMPLES the slots
\* 0 .. num_samples - 1 hold the inputs in arrival order with key -1, and
\* ReservoirSampleFinalize lists them in that order; an update of a full
\* reservoir draws r from [0, source_size], replaces the slot r when
\* r < NUM_SAMPLES and no slot otherwise, and leaves num_samples as it was.
C23_UpdateFillsThenReplaces ==
  /\ \A p \in Parts :
       UpdatesOnly(p) =>
         LET state == st[p].buf
         IN  /\ state.source_size = Len(hist[p])
             /\ state.num_samples = MinOf(state.source_size, NUM_SAMPLES)
             /\ state.source_size <= NUM_SAMPLES =>
                  \A i \in Slots(state) :
                    state.samples[i] = [val |-> hist[p][i + 1].val, key |-> FromInt(-1)]
  /\ (agg = "reservoir" /\ cnt.merges = 0 /\ last.op = "ReservoirSampleFinalize"
        /\ Len(hist[last.part]) <= NUM_SAMPLES)
       => out[last.part].result.buf =
            ListText([i \in 1..Len(hist[last.part]) |-> hist[last.part][i].val])
  /\ (agg = "reservoir" /\ cnt.merges = 0 /\ last.kind = "update" /\ ~last.is_null
        /\ last.pre.buf.num_samples = NUM_SAMPLES)
       => LET pre  == last.pre.buf
              post == st[last.part].buf
              r    == GetNext64(desc.seed, pre.rng, pre.source_size)
          IN  /\ r \in 0..pre.source_size
              /\ SlotsChanged(pre, post) \subseteq {r}
              /\ r >= NUM_SAMPLES => SlotsChanged(pre, post) = {}
              /\ post.num_samples = pre.num_samples

\* An update of a full reservoir replaced a slot.
C23_Witness ==
  /\ agg = "reservoir"
  /\ cnt.merges = 0
  /\ last.kind = "update"
  /\ last.pre.buf.num_samples = NUM_SAMPLES
  /\ SlotsChanged(last.pre.buf, st[last.part].buf) # {}

(***************************************************************************)
(* Reservoir sampling: serialize.                                          *)
(***************************************************************************)
\* C24: after ReservoirSampleSerialize every occupied slot has an assigned
\* key: a key that was -1 is (source_size - r) / source_size for an integer r
\* in [0, num_samples) and so lies in (0, 1], a key that was assigned is kept,
\* and in every serialized state the key of every occupied slot is >= 0, as
\* ReservoirSampleMerge requires.
C24_SerializeAssignsKeys ==
  /\ \A p \in Parts :
       (agg = "reservoir" /\ out[p].phase = "serialized") =>
         \A i \in Slots(st[p].buf) : ~FLess(st[p].buf.samples[i].key, FromInt(0))
  /\ (agg = "reservoir" /\ last.kind = "serialize") =>
       LET pre  == last.pre.buf
           post == st[last.part].buf
       IN  /\ post.num_samples = pre.num_samples
           /\ \A i \in Slots(post) :
                IF pre.samples[i].key = FromInt(-1)
                THEN /\ \E r \in 0..(post.num_samples - 1) :
                          post.samples[i].key = Frac(post.source_size - r, post.source_size)
                     /\ FLess(FromInt(0), post.samples[i].key)
                     /\ ~FLess(FromInt(1), post.samples[i].key)
                     /\ post.samples[i].val = pre.samples[i].val
                ELSE post.samples[i] = pre.samples[i]

\* A state that holds a merged sample with a key and a later one without is
\* serialized, and the new key is below 1.
C24_Witness ==
  /\ agg = "reservoir"
  /\ last.kind = "serialize"
  /\ \E i, j \in Slots(last.pre.buf) :
       /\ last.pre.buf.samples[i].key = FromInt(-1)
       /\ last.pre.buf.samples[j].key # FromInt(-1)
       /\ FLess(st[last.part].buf.samples[i].key, FromInt(1))

(***************************************************************************)
(* Reservoir sampling: reproducibility.                                    *)
(***************************************************************************)
\* The states a serialize call on the state before the last step could have
\* returned.
SerializeOutcomes == {r.dst : r \in ReservoirSampleSerialize(last.prectx, last.pre)}

\* C25: the reservoir operations are deterministic functions of the state
\* (with its embedded generator) and the inputs, and none draws randomness
\* from outside the state: the state a serialize call returned is the only
\* one it could return for the state it was given.
C25_SerializeIsFunctionOfState ==
  (agg = "reservoir" /\ last.kind = "serialize") => SerializeOutcomes = {st[last.part]}

\* With at most one sample rand() % num_samples is 0 whatever rand() returns,
\* and the serialized state is determined.
C25_OneSampleSerializeDetermined ==
  (agg = "reservoir" /\ last.kind = "serialize" /\ last.pre.buf.num_samples <= 1)
    => SerializeOutcomes = {st[last.part]}

(***************************************************************************)
(* Reservoir sampling: histogram and approximate median.                   *)
(***************************************************************************)
\* vals without its element at position i.
DropAt(vals, i) == SubSeq(vals, 1, i - 1) \o SubSeq(vals, i + 1, Len(vals))

\* vals in ascending order, by taking out a least element first.
RECURSIVE Ascending(_)
Ascending(vals) ==
  IF vals = <<>> THEN <<>>
  ELSE LET i == CHOOSE k \in 1..Len(vals) : \A j \in 1..Len(vals) : vals[k] <= vals[j]
       IN  <<vals[i]>> \o Ascending(DropAt(vals, i))

\* The values held in the occupied slots, in slot order.
SampleVals(state) == [i \in 1..state.num_samples |-> state.samples[i - 1].val]

\* The 0-based indexes the histogram emits for n samples: (i + 1) * step - 1
\* for i in [0, B), B = min(n, NUM_BUCKETS), step = max(n / NUM_BUCKETS, 1).
HistogramIndexes(n) ==
  LET B    == MinOf(n, NUM_BUCKETS)
      step == MaxOf(n \div NUM_BUCKETS, 1)
  IN  [i \in 1..B |-> i * step - 1]

\* What the claim says the histogram of a state is.
HistogramOf(state) ==
  LET sorted == Ascending(SampleVals(state))
      idx    == HistogramIndexes(state.num_samples)
  IN  [i \in 1..Len(idx) |-> sorted[idx[i] + 1]]

\* A reservoir with room for more samples than buckets, holding vals.
StateHolding(vals) ==
  [samples |-> [i \in 0..(Len(vals) - 1) |-> ReservoirSample(vals[i + 1])],
   num_samples |-> Len(vals), source_size |-> Len(vals), rng |-> 0]

FiveSamples == StateHolding(<<7, 3, 9, 1, 5>>)

\* With five samples there are more samples than buckets; with NUM_BUCKETS = 2
\* the step is 2 and the second and the fourth smallest value are emitted.
FiveSamplesHistogram ==
  /\ HistogramFinalize(NewCtx, StringVal(1, 8, FiveSamples)).result.buf
       = ListText(HistogramOf(FiveSamples))
  /\ NUM_BUCKETS = 2 => HistogramOf(FiveSamples) = <<3, 7>>

\* C26: HistogramFinalize emits exactly B = min(num_samples, NUM_BUCKETS)
\* values (NUM_BUCKETS is 100 in the source), the i-th being the element at
\* index (i + 1) * step - 1, step = max(num_samples / NUM_BUCKETS, 1), of the
\* samples sorted ascending by value; every index is below num_samples and
\* the list is non-decreasing.
C26_HistogramQuantiles ==
  /\ FiveSamplesHistogram
  /\ (agg = "reservoir" /\ last.op = "HistogramFinalize") =>
       LET src  == last.pre.buf
           idx  == HistogramIndexes(src.num_samples)
           vals == HistogramOf(src)
       IN  /\ out[last.part].result.buf = ListText(vals)
           /\ Len(vals) = MinOf(src.num_samples, NUM_BUCKETS)
           /\ \A i \in 1..Len(idx) : idx[i] >= 0 /\ idx[i] < src.num_samples
           /\ \A i \in 1..(Len(vals) - 1) : vals[i] <= vals[i + 1]

\* A full reservoir whose samples arrived in descending order is emitted in
\* ascending order.
C26_Witness ==
  /\ agg = "reservoir"
  /\ last.op = "HistogramFinalize"
  /\ last.pre.buf.num_samples = NUM_SAMPLES
  /\ last.pre.buf.samples[0].val > last.pre.buf.samples[1].val
  /\ out[last.part].result.buf = ListText(Ascending(SampleVals(last.pre.buf)))

\* The inputs 1 .. 1001, held in arrival order.
ThousandAndOne == StateHolding([i \in 1..1001 |-> i])

\* appx_median of 1 .. 1001 is "501".
MedianExample ==
  AppxMedianFinalize(NewCtx, StringVal(1, 1004, ThousandAndOne)).result.buf = <<53, 48, 49>>

\* C27: AppxMedianFinalize emits the element at index num_samples / 2
\* (integer division) of the samples sorted ascending by value; for a stream
\* that fits in the reservoir this is the upper median of the inputs, and the
\* inputs 1 .. 1001 give 501.
C27_MedianIsMiddleSample ==
  /\ MedianExample
  /\ (agg = "reservoir" /\ last.op = "AppxMedianFinalize" /\ last.pre.buf.num_samples > 0) =>
       LET src    == last.pre.buf
           sorted == Ascending(SampleVals(src))
       IN  /\ out[last.part].result.buf = ListText(<<sorted[src.num_samples \div 2 + 1]>>)
           /\ (cnt.merges = 0 /\ Len(hist[last.part]) <= NUM_SAMPLES) =>
                LET inputs == Ascending([i \in 1..Len(hist[last.part]) |-> hist[last.part][i].val])
                IN  out[last.part].result.buf = ListText(<<inputs[Len(inputs) \div 2 + 1]>>)

\* Two different inputs arrived in descending order, and the greater one, at
\* index 1 of the ascending order, is emitted.
C27_Witness ==
  /\ agg = "reservoir"
  /\ cnt.merges = 0
  /\ last.op = "AppxMedianFinalize"
  /\ last.pre.buf.num_samples = 2
  /\ last.pre.buf.samples[0].val > last.pre.buf.samples[1].val
  /\ out[last.part].result.buf = PrintSample(last.pre.buf.samples[0])

(***************************************************************************)
(* Distinct estimates: the bit and the register an update writes.          *)
(***************************************************************************)
\* The input of the last update call (a non-null one).
LastInput == hist[last.part][Len(hist[last.part])]

NonNullUpdate(a) == agg = a /\ last.kind = "update" /\ ~last.is_null

\* The states PcsaUpdate could have left for the last input.
PcsaOutcomes == PcsaUpdate(LastInput, last.pre)

\* The update set one bit of row h mod 64, at a column in [0, 31] that the
\* input decides, and no other bit.
PcsaSetOneBit ==
  LET row == LowBits(LastInput.val, PcRowBits)
  IN  /\ \E col \in 0..(PC_BITMAP_LENGTH - 1) :
           /\ <<row, col>> \in st[last.part].buf
           /\ st[last.part].buf = last.pre.buf \cup {<<row, col>>}
      /\ PcsaOutcomes = {st[last.part]}

\* C28: for every non-null input and every 32-bit hash h (h = 0 and
\* 1 <= h < 64 included), PcsaUpdate sets exactly one bit, at row h mod 64 and
\* at a well-defined column in [0, 31], and changes no other bit of the bitmap.
C28_PcsaUpdateWellDefined ==
  NonNullUpdate("pcsa") => PcsaSetOneBit

\* The case the code decides without undefined behaviour: h = 0 or h >= 64.
C28_HoldsWithoutSmallHash ==
  (NonNullUpdate("pcsa") /\ LastInput # SmallHash) => PcsaSetOneBit

\* The largest value of ctz(h >> HLL_PRECISION) + 1 for a 64-bit hash.
HllMaxRegister == HashBits - HLL_PRECISION

\* The update changed at most the register h & 1023 and left it in [1, 54].
HllTouchedOneRegister ==
  LET idx  == LowBits(LastInput.val, HLL_PRECISION)
      pre  == last.pre.buf
      post == st[last.part].buf
  IN  /\ \A i \in (DOMAIN pre \cup DOMAIN post) \ {idx} :
           HllRegister(post, i) = HllRegister(pre, i)
      /\ HllRegister(post, idx) \in 1..HllMaxRegister

HllRegistersInRange ==
  \A p \in Parts : \A i \in DOMAIN st[p].buf : st[p].buf[i] \in 0..HllMaxRegister

\* C29: for every non-null input whose 64-bit hash h is not zero (1 <= h < 1024
\* included), HllUpdate touches only register h & 1023 and leaves it with a
\* value in [1, 54]; every register of every reachable HLL state is in [0, 54].
C29_HllRegisterRange ==
  agg = "hll" =>
    /\ HllRegistersInRange
    /\ (NonNullUpdate("hll") /\ LastInput.val # {}) => HllTouchedOneRegister

\* The case the code decides without undefined behaviour: h >= 1024.
C29_HoldsWithoutSmallHash ==
  (agg = "hll" /\ \A p \in Parts : SmallHash \notin Range(hist[p])) =>
    /\ HllRegistersInRange
    /\ (NonNullUpdate("hll") /\ LastInput.val # {}) => HllTouchedOneRegister

(***************************************************************************)
(* Distinct estimates: the scan of the rows.                               *)
(***************************************************************************)
PcRows == 0..(NUM_PC_BITMAPS - 1)

\* Row i of the bitmap has all its bits set.
FullRow(bitmap, i) == \A b \in 0..(PC_BITMAP_LENGTH - 1) : <<i, b>> \in bitmap

\* C30: for every reachable PC / PCSA bitmap the run length L_i of every row
\* is in [0, 32] and the scan of a row tests columns 0 .. 31 only: for a row
\* with all 32 bits set it stops with L_i = 32 without testing column 32.
C30_ScanStaysInBounds ==
  agg \in {"pc", "pcsa"} =>
    \A p \in Parts : \A i \in PcRows :
      /\ RowBitCount(st[p].buf, i, 0) \in 0..PC_BITMAP_LENGTH
      /\ ColumnsTested(st[p].buf, i, 0) \subseteq 0..(PC_BITMAP_LENGTH - 1)
      /\ FullRow(st[p].buf, i) => RowBitCount(st[p].buf, i, 0) = PC_BITMAP_LENGTH

\* What holds of the scan: the run length is in [0, 32], it is 32 for a full
\* row, and a row that is not full is scanned within columns 0 .. 31.
C30_RunLengthInBounds ==
  agg \in {"pc", "pcsa"} =>
    \A p \in Parts : \A i \in PcRows :
      /\ RowBitCount(st[p].buf, i, 0) \in 0..PC_BITMAP_LENGTH
      /\ FullRow(st[p].buf, i) => RowBitCount(st[p].buf, i, 0) = PC_BITMAP_LENGTH
      /\ ~FullRow(st[p].buf, i) =>
           ColumnsTested(st[p].buf, i, 0) \subseteq 0..(PC_BITMAP_LENGTH - 1)

\* The scan of a full row tests column 32.
C30_FullRowTestsColumn32 ==
  agg \in {"pc", "pcsa"} =>
    \A p \in Parts : \A i \in PcRows :
      FullRow(st[p].buf, i) => PC_BITMAP_LENGTH \in ColumnsTested(st[p].buf, i, 0)

(***************************************************************************)
(* C31: sketches only grow.                                                *)
(***************************************************************************)
\* Image a is below image b: every bit of a PC / PCSA bitmap is a bit of b,
\* every HLL register of b is at least the one of a.
SketchLeq(a, b) ==
  IF agg = "hll"
  THEN \A i \in DOMAIN a.buf : HllRegister(b.buf, i) >= a.buf[i]
  ELSE a.buf \subseteq b.buf

\* C31: across every step (update, merge, finalize) of PC, PCSA and HLL the
\* image of every partial state after the step is bitwise (PC, PCSA) or
\* register-wise (HLL) at least the image before it: no bit is cleared and no
\* register decreases.  After an update or a merge the state also holds what
\* it held before the call.
C31_SketchesOnlyGrow ==
  [][/\ \A p \in Parts : SketchLeq(st[p], st'[p])
     /\ last'.kind = "merge" => SketchLeq(st[last'.from], st'[last'.part])]_vars

\* A merge of a source that holds something into a destination that holds
\* something else: the result is strictly above both.
C31_Witness ==
  /\ agg \in Estimators
  /\ last.kind = "merge"
  /\ last.pre.buf # st[last.part].buf
  /\ st[last.from].buf # st[last.part].buf
  /\ SketchLeq(last.pre, st[last.part])
  /\ SketchLeq(st[last.from], st[last.part])

(***************************************************************************)
(* C32: who owns the buffer of a string Min / Max.                         *)
(***************************************************************************)
\* The partial states that hold a string.
Holding == {p \in Parts : ~st[p].is_null}

\* The last call was an update or a merge of string Min / Max that replaced
\* what its accumulator held.
Replaced ==
  /\ last.kind \in {"update", "merge"}
  /\ st[last.part] # last.pre

\* C32: for string Min / Max, from InitNullString and after any updates and
\* merges, (1) an accumulator never points to a caller's input buffer nor to
\* the buffer of the state merged in: a non-null accumulator holds a live
\* buffer of the allocator that no other accumulator holds, with a copy of
\* the bytes; (2) no buffer is freed twice and, when a call replaces the
\* value, the buffer held before is given back: the call that replaces a
\* non-null value leaves as many live buffers as it found, the one that
\* replaces null one more; (3) a call that does not replace leaves the
\* allocator as it was; (4) the live buffers are exactly those of the non-null
\* accumulators, one each, and a null accumulator has none (ptr NULL).
C32_StringBufferOwnership ==
  (agg \in {"min_string", "max_string"} /\ last.kind # "finalize") =>
    /\ \A p \in Parts :
         IF st[p].is_null THEN st[p].ptr = NULL
         ELSE /\ st[p].ptr \in ctx.live
              /\ st[p].ptr # InputPtr
              /\ \A q \in Parts \ {p} : st[q].ptr # st[p].ptr
              /\ \E row \in Range(hist[p]) :
                   row.buf = st[p].buf /\ row.len = st[p].len
    /\ ctx.bad_free = 0
    /\ ctx.live = {st[p].ptr : p \in Holding}
    /\ Cardinality(ctx.live) = Cardinality(Holding)
    /\ last.kind \in {"update", "merge"} =>
         IF Replaced
         THEN Cardinality(ctx.live) = Cardinality(last.prectx.live) +
                                        (IF last.pre.is_null THEN 1 ELSE 0)
         ELSE ctx = last.prectx

\* A call replaced a string the accumulator held, and another one after it
\* did not replace: two partial states hold a buffer each.
C32_Witness ==
  /\ agg \in {"min_string", "max_string"}
  /\ Replaced
  /\ ~last.pre.is_null
  /\ Cardinality(Holding) = 2
  /\ Cardinality(ctx.live) = 2

(***************************************************************************)
(* C33: the header of a StringConcat state.                                *)
(***************************************************************************)
\* The separator a row is appended with.
SeparatorOf(row) ==
  IF row.separator.is_null THEN DEFAULT_STRING_CONCAT_DELIM ELSE row.separator

\* C33: every non-null StringConcat state reached by updates and merges is
\* len bytes long with len >= sizeof(int) + h for the header value h, and the
\* h bytes after the header are the separator of the first row the state
\* holds (of its first non-null update, or of the first merged source when it
\* was null); a state is null exactly when it holds no row.  So both length
\* tests of StringConcatFinalize pass, and a finalized result has a length
\* that is not negative and as many bytes.
C33_ConcatHeaderInvariant ==
  agg = "string_concat" =>
    \A p \in Parts :
      /\ st[p].is_null <=> hist[p] = <<>>
      /\ ~st[p].is_null =>
           LET h == ReadHeader(st[p].buf)
               first == SeparatorOf(hist[p][1])
           IN  /\ st[p].len = Len(st[p].buf)
               /\ st[p].len >= HeaderLen
               /\ st[p].len >= HeaderLen + h
               /\ h = first.len
               /\ SubSeq(st[p].buf, HeaderLen + 1, HeaderLen + h) = first.buf
      /\ out[p].phase = "finalized" =>
           /\ out[p].result.len >= 0
           /\ out[p].result.len = Len(out[p].result.buf)

\* A null destination took its header from a merged source whose first
\* separator is the default one (two bytes) and whose second is not, and was
\* finalized: all the rows went to the source, and the destination holds them
\* too.
C33_Witness ==
  /\ agg = "string_concat"
  /\ \E p \in Parts :
       /\ out[p].phase = "finalized"
       /\ Len(hist[p]) >= 2
       /\ hist[p][1].separator.is_null
       /\ ~hist[p][2].separator.is_null
       /\ ReadHeader(st[p].buf) = 2
       /\ \E q \in Parts \ {p} : hist[q] = hist[p] /\ cnt.rows = Len(hist[q])
  /\ cnt.merges > 0

(***************************************************************************)
(* C34: the heap of a destination that is only merged into.                *)
(***************************************************************************)
\* The second loop of ReservoirSampleMerge(src, dst) runs its body: the first
\* loop has left samples of the source.
ReplacePhaseEntered(src, dst) == MergeFill(src, dst, 0).src_idx < src.num_samples

\* What holds of a merge of src into dst and of the state res it leaves.
MergeKeepsHeap(src, dst, res) ==
  /\ IsKeyMinHeap(res)
  /\ res.num_samples <= NUM_SAMPLES
  /\ ReplacePhaseEntered(src, dst) =>
       /\ MergeFill(src, dst, 0).dst.num_samples = NUM_SAMPLES
       /\ res.num_samples = NUM_SAMPLES

\* The destination after ReservoirSampleInit and the merges of srcs, in order.
RECURSIVE MergedFrom(_)
MergedFrom(srcs) ==
  IF srcs = <<>> THEN ReservoirSampleInit(NewCtx).dst
  ELSE ReservoirSampleMerge(
         StringVal(NULL, SizeofReservoirSampleState, srcs[Len(srcs)]),
         MergedFrom(SubSeq(srcs, 1, Len(srcs) - 1)))

\* Serialized states of one or two samples with keys from ExampleKeys.
SmallSources ==
  {[samples |-> [i \in 0..(NUM_SAMPLES - 1) |->
                   IF i < n THEN [val |-> 10 + i, key |-> keys[i]] ELSE EmptySample],
    num_samples |-> n, source_size |-> n + 10, rng |-> 0] :
     n \in {1, 2}, keys \in [0..1 -> ExampleKeys]}

\* Two merges into a fresh destination: of a keyed source, then of a small one.
KeyedChainsKeepHeap ==
  \A s1 \in KeyedStates(0) :
    LET d0 == MergedFrom(<<>>).buf
        d1 == MergedFrom(<<s1>>).buf
    IN  /\ MergeKeepsHeap(s1, d0, d1)
        /\ ~ReplacePhaseEntered(s1, d0)
        /\ \A s2 \in SmallSources :
             MergeKeepsHeap(s2, d1, MergedFrom(<<s1, s2>>).buf)

\* Partial state p has taken merges and no update: the rows all went to the
\* other partial states (the one merged in takes no merge itself, being
\* serialized).
MergesOnly(p) ==
  /\ agg = "reservoir"
  /\ last.kind # "init"
  /\ \E q \in Parts \ {p} :
       /\ out[q].phase = "serialized"
       /\ cnt.rows = Len(hist[q])
       /\ \E k \in 1..cnt.merges : Len(hist[p]) = k * Len(hist[q])
       /\ st[p].buf.source_size = cnt.merges * st[q].buf.source_size

\* C34: a destination reached from ReservoirSampleInit by merges of serialized
\* states only has, after every merge, its occupied slots in min-heap order on
\* the key (no key below its parent's) and at most NUM_SAMPLES samples; and the
\* second loop of a merge (pop_heap / push_heap over all NUM_SAMPLES slots)
\* runs only on a destination the first loop has left with NUM_SAMPLES samples.
C34_MergedHeapInvariant ==
  /\ KeyedChainsKeepHeap
  /\ \A p \in Parts :
       (MergesOnly(p) /\ last.kind = "merge" /\ last.part = p) =>
          MergeKeepsHeap(st[last.from].buf, last.pre.buf, st[p].buf)

\* A destination that took no update was merged into, the slots are not in
\* the order the source had them and the keys differ; and among the merges of
\* keyed sources there is one that enters the second loop and takes a sample.
C34_Witness ==
  /\ \E p \in Parts :
       /\ MergesOnly(p)
       /\ last.kind = "merge"
       /\ last.part = p
       /\ st[p].buf.num_samples = NUM_SAMPLES
       /\ st[p].buf.samples # st[last.from].buf.samples
       /\ st[p].buf.samples[0].key # st[p].buf.samples[NUM_SAMPLES - 1].key
  /\ \E s1 \in KeyedStates(0), s2 \in SmallSources :
       /\ ReplacePhaseEntered(s2, MergedFrom(<<s1>>).buf)
       /\ SamplesOf(MergedFrom(<<s1, s2>>).buf) \cap SamplesOf(s2) # {}
       /\ SamplesOf(MergedFrom(<<s1, s2>>).buf) \cap SamplesOf(s1) # {}

(***************************************************************************)
(* C35: the state of rank and dense rank.                                  *)
(***************************************************************************)
\* The update calls made on a state since its last get-value call.
PendingUpdates(calls) ==
  Cardinality({k \in 1..Len(calls) :
                 calls[k].call = "update" /\ k > PrevGetValue(calls, Len(calls) + 1)})

\* The tests RankGetValue makes of its state: count > 0 and rank > 0.
RankGetValueChecks(state) == state.count > 0 /\ state.rank > 0

\* The tests DenseRankGetValue makes of its state: count = 0 and rank > 0.
DenseRankGetValueChecks(state) == state.count = 0 /\ state.rank > 0

\* C35: under the window protocol, every reachable state of rank has
\* rank >= 1, count >= 0 and rank + count = 1 + the number of RankUpdate calls
\* made on it; count is the number of updates since the last RankGetValue, so
\* a RankGetValue that follows one or more RankUpdate finds count > 0 and
\* rank > 0.  For dense rank count stays 0 and rank >= 1, so DenseRankGetValue
\* finds count = 0 and rank > 0.  RankFinalize returns the rank of the state,
\* without the pending count.
C35_RankStateInvariant ==
  /\ agg = "rank" =>
       \A p \in Parts :
         LET state == st[p].buf
         IN  /\ state.rank >= 1
             /\ state.count >= 0
             /\ state.rank + state.count = 1 + UpdatesAmong(hist[p], Len(hist[p]))
             /\ state.count = PendingUpdates(hist[p])
             /\ PendingUpdates(hist[p]) > 0 => RankGetValueChecks(state)
  /\ last.op = "RankGetValue" => RankGetValueChecks(last.pre.buf)
  /\ agg = "dense_rank" =>
       \A p \in Parts : st[p].buf.rank >= 1 /\ DenseRankGetValueChecks(st[p].buf)
  /\ last.op = "DenseRankGetValue" => DenseRankGetValueChecks(last.pre.buf)
  /\ last.op = "RankFinalize" =>
       out[last.part].result = Val(st[last.part].buf.rank)

\* Rank was finalized on a state that had returned a rank above 1 and had
\* rows pending.
C35_Witness ==
  /\ agg = "rank"
  /\ last.op = "RankFinalize"
  /\ st[last.part].buf.count > 1
  /\ st[last.part].buf.rank > 2
  /\ GetValueCalls(hist[last.part]) # {}

(***************************************************************************)
(* C36: the slots the reservoir finalizers read.                           *)
(***************************************************************************)
\* The texts of the values folded into partial state p.
FoldedTexts(p) == {PrintSample(ReservoirSample(row.val)) : row \in Range(hist[p])}

\* HistogramFinalize on the state of the last call read sampled slots only,
\* and what it printed is a list of values folded in.
HistogramReadSampled ==
  LET n   == last.pre.buf.num_samples
      idx == HistogramSampleIdx(n)
  IN  /\ Range(idx) \subseteq 0..(n - 1)
      /\ \E vals \in [1..Len(idx) -> {row.val : row \in Range(hist[last.part])}] :
           out[last.part].result.buf = ListText(vals)

\* AppxMedianFinalize on the state of the last call read a sampled slot, and
\* what it printed is a value folded in.
AppxMedianReadSampled ==
  /\ AppxMedianSampleIdx(last.pre.buf.num_samples) \in 0..(last.pre.buf.num_samples - 1)
  /\ out[last.part].result.buf \in FoldedTexts(last.part)

\* C36: on every reachable reservoir state, the empty one (num_samples = 0)
\* included, HistogramFinalize and AppxMedianFinalize read slots of
\* [0, num_samples) only, and every value they emit was folded in.
C36_FinalizersReadSampledSlots ==
  /\ last.op = "HistogramFinalize" => HistogramReadSampled
  /\ last.op = "AppxMedianFinalize" => AppxMedianReadSampled

\* HistogramFinalize does, on every state.
C36_HistogramReadsSampledSlots ==
  last.op = "HistogramFinalize" => HistogramReadSampled

\* AppxMedianFinalize does on a state that holds a sample; on an empty state it
\* reads slot 0, which holds ReservoirSample(), and prints its value.
C36_MedianReadsSampledSlotUnlessEmpty ==
  last.op = "AppxMedianFinalize" =>
    IF last.pre.buf.num_samples > 0 THEN AppxMedianReadSampled
    ELSE /\ AppxMedianSampleIdx(0) = 0
         /\ out[last.part].result.buf = PrintSample(EmptySample)

(***************************************************************************)
(* C37: what ReservoirSampleSerialize leaves as it was.                    *)
(***************************************************************************)
\* The occupied slots of a state all have a key.
AllKeyed(state) ==
  \A i \in Slots(state) : ~FLess(state.samples[i].key, FromInt(0))

\* C37: the state ReservoirSampleSerialize returns has the length, the
\* num_samples, the source_size and the generator of its input, the same
\* sample values in the same slots, every key that was >= 0 and every slot
\* that is not occupied as they were; serializing the state it returned gives
\* one outcome, with the same contents; the input's buffer was live and is
\* freed, no other buffer is, and none is freed twice; a null input comes back
\* as it is, with nothing allocated or freed.
C37_SerializeKeepsAllButNewKeys ==
  (agg = "reservoir" /\ last.op = "ReservoirSampleSerialize") =>
    LET pre  == last.pre.buf
        post == st[last.part].buf
    IN  /\ ~st[last.part].is_null
        /\ st[last.part].len = last.pre.len
        /\ post.num_samples = pre.num_samples
        /\ post.source_size = pre.source_size
        /\ post.rng = pre.rng
        /\ \A i \in 0..(NUM_SAMPLES - 1) :
             /\ post.samples[i].val = pre.samples[i].val
             /\ (i \notin Slots(pre) \/ ~FLess(pre.samples[i].key, FromInt(0)))
                  => post.samples[i] = pre.samples[i]
        /\ AllKeyed(pre) => post = pre
        /\ \A again \in ReservoirSampleSerialize(ctx, st[last.part]) : again.dst.buf = post
        /\ Cardinality(ReservoirSampleSerialize(ctx, st[last.part])) = 1
        /\ last.pre.ptr \in last.prectx.live
        /\ ctx.live = last.prectx.live \ {last.pre.ptr}
        /\ ctx.bad_free = 0
        /\ ReservoirSampleSerialize(ctx, NullString) = {[dst |-> NullString, ctx |-> ctx]}

\* A state that was merged into, whose samples all have the keys of their
\* source (not all the same), is serialized.
C37_Witness ==
  /\ agg = "reservoir"
  /\ last.op = "ReservoirSampleSerialize"
  /\ last.pre.buf.num_samples = NUM_SAMPLES
  /\ AllKeyed(last.pre.buf)
  /\ \E i, j \in Slots(last.pre.buf) : last.pre.buf.samples[i].key # last.pre.buf.samples[j].key
  /\ st[last.part].buf = last.pre.buf

(***************************************************************************)
(* C38: the branch HllFinalize takes.                                      *)
(***************************************************************************)
\* 6 m^2 times a lower and an upper bound of m * ln(m / V) for V = m - k zero
\* registers: with x = k / m, ln(m / V) = x + x^2/2 + x^3/3 + R and
\* 0 <= R < x^4 / (4 (1 - x)).
LogLowerScaled(k) ==
  6 * HLL_LEN * HLL_LEN * k + 3 * HLL_LEN * k * k + 2 * k * k * k

LogUpperScaled(k) ==
  LogLowerScaled(k) + ((3 * k * k * k * k) \div (2 * (HLL_LEN - k))) + 1

\* e = floor(m * ln(m / V)): e <= m * ln(m / V) < e + 1.
IsFloorOfLinearCount(e, num_zero_registers) ==
  LET k == HLL_LEN - num_zero_registers
  IN  /\ e * 6 * HLL_LEN * HLL_LEN <= LogLowerScaled(k)
      /\ LogUpperScaled(k) <= (e + 1) * 6 * HLL_LEN * HLL_LEN

\* The linear-counting estimate is floor(m * ln(m / V)) for up to 64 registers
\* that are not zero.
LinearCountingIsFloorOfLog ==
  \A k \in 0..(HLL_LEN \div 16) :
    IsFloorOfLinearCount(HllLinearCounting(HLL_LEN - k), HLL_LEN - k)

\* "3"
TextOfThree == <<AsciiZero + 3>>

\* C38: HllFinalize returns the text of floor(m * ln(m / V)) whenever the
\* number V of zero registers is above 0, and of the raw estimate only when
\* no register is zero; a state with exactly 3 registers that are not zero,
\* as after the inputs [1, 1, 2, 3, 1, 2], finalizes to "3".
C38_HllFinalizeBranch ==
  /\ LinearCountingIsFloorOfLog
  /\ last.op = "HllFinalize" =>
       LET buf == last.pre.buf
           num_zero_registers == HLL_LEN - Cardinality(DOMAIN buf)
           result == out[last.part].result
       IN  /\ IF num_zero_registers > 0
              THEN \E e \in 0..HLL_LEN :
                     /\ IsFloorOfLinearCount(e, num_zero_registers)
                     /\ result = Int64ToStringVal(e)
              ELSE result = Int64ToStringVal(HllRawEstimate(buf))
           /\ Cardinality(DOMAIN buf) = 3 => result.buf = TextOfThree
           /\ hist[last.part] = HllExampleInputs => result.buf = TextOfThree

\* The state that has taken [1, 1, 2, 3, 1, 2] and nothing else, with three
\* registers that are not zero, was finalized to "3".
C38_Witness ==
  /\ last.op = "HllFinalize"
  /\ hist[last.part] = HllExampleInputs
  /\ DOMAIN last.pre.buf = {0, 1, 2}
  /\ out[last.part].result.buf = TextOfThree

====
